---- MODULE Spec2Model ----
(***************************************************************************)
(* The receipt extraction pipeline of src/extract.py: ReceiptExtractor     *)
(* (process_pdf, _run_ocr, _run_parsing, _run_llm_extraction,              *)
(* _save_results, process_directory), LLMExtractor.extract_from_text and   *)
(* main, as a state machine over the result dictionary under construction  *)
(* and the extracted/ directory; the reconciler and the build steps of     *)
(* src/site.py over the verified/ directory; and _run_parsing,             *)
(* _parse_odometer and fix_odometer (src/generate_data_model.py) called on *)
(* their own.                                                              *)
(***************************************************************************)
EXTENDS Integers, Sequences, FiniteSets, TLC

(***************************************************************************)
(* JSON / Python values.  Every value is a record tagged by its kind, so   *)
(* that a dict, a list, a string, a number and None can meet in one place, *)
(* as they do in what json.loads returns.                                  *)
(***************************************************************************)
JNull == [kind |-> "null"]
JNum(n) == [kind |-> "number", num |-> n]
JStr(s) == [kind |-> "string", str |-> s]
JArr(items) == [kind |-> "array", items |-> items]
JObj(m) == [kind |-> "object", map |-> m]
EmptyDict == JObj(<<>>)

Keys(d) == DOMAIN d.map

DictSet(d, k, v) ==
    JObj([x \in Keys(d) \cup {k} |-> IF x = k THEN v ELSE d.map[x]])

Range(s) == {s[i] : i \in 1..Len(s)}

\* The characters of the strings that occur as whole fallback responses, of
\* the field names tested against them (Python's str iteration and `in`),
\* and of the date strings found in verified.json, in override.json and in
\* final_data.
Chars(s) ==
    CASE s = "date" -> <<"d", "a", "t", "e">>
      [] s = "amount" -> <<"a", "m", "o", "u", "n", "t">>
      [] s = "company" -> <<"c", "o", "m", "p", "a", "n", "y">>
      [] s = "n/a" -> <<"n", "/", "a">>
      [] s = "2020-03-15" -> <<"2", "0", "2", "0", "-", "0", "3", "-", "1", "5">>
      [] s = "2019-06-01" -> <<"2", "0", "1", "9", "-", "0", "6", "-", "0", "1">>
      [] s = "2020-13-45" -> <<"2", "0", "2", "0", "-", "1", "3", "-", "4", "5">>
      [] s = "15.03.2020" -> <<"1", "5", ".", "0", "3", ".", "2", "0", "2", "0">>
      [] s = "2020-02-01" -> <<"2", "0", "2", "0", "-", "0", "2", "-", "0", "1">>
      [] s = "2021-03-04" -> <<"2", "0", "2", "1", "-", "0", "3", "-", "0", "4">>
      [] s = "2019-09-09" -> <<"2", "0", "1", "9", "-", "0", "9", "-", "0", "9">>
      [] OTHER -> <<>>

IsSubstring(needle, hay) ==
    \E i \in 0..(Len(hay) - Len(needle)) :
        \A j \in 1..Len(needle) : hay[i + j] = needle[j]

\* `field in v` raises TypeError unless v is a container.
SupportsIn(v) == v.kind \in {"object", "array", "string"}

\* `field in v` for a dict (key), a list (element) and a str (substring).
Contains(v, field) ==
    CASE v.kind = "object" -> field \in Keys(v)
      [] v.kind = "array" -> JStr(field) \in Range(v.items)
      [] v.kind = "string" -> IsSubstring(Chars(field), Chars(v.str))
      [] OTHER -> FALSE

\* `v[field]` with a str key raises TypeError unless v is a dict.
SupportsStrIndex(v) == v.kind = "object"

\* `for field in v` raises TypeError unless v is iterable.
Iterable(v) == v.kind \in {"object", "array", "string"}

\* What `for field in v` yields, as the set of dict keys built from it.
IterKeys(v) ==
    CASE v.kind = "object" -> Keys(v)
      [] v.kind = "array" -> {x.str : x \in Range(v.items)}
      [] v.kind = "string" -> Range(Chars(v.str))
      [] OTHER -> {}

(***************************************************************************)
(* ReceiptExtractor.__init__: modes, required fields, the rule table.      *)
(***************************************************************************)
Modes == {"full_pipeline", "pattern_only", "llm_only", "ocr_only"}

required_fields == {"date", "amount", "company"}

\* self.patterns: the number of (pattern, parser) rules of each field.
patterns ==
    [date |-> 2, amount |-> 3, vat_amount |-> 3, invoice_number |-> 3,
     odometer_km |-> 4, company |-> 6]

Fields == DOMAIN patterns

(***************************************************************************)
(* OCR text.  A text is given by what re.search and the parser of every    *)
(* rule make of it, and by the service terms found in it.                  *)
(***************************************************************************)
NoMatch == [matched |-> FALSE, value |-> JNull]
Rejected == [matched |-> TRUE, value |-> JNull]
Hit(v) == [matched |-> TRUE, value |-> v]

\* The value rule i of a field normalizes its match to.
PatVal(field, i) ==
    CASE field = "date" -> JStr(IF i = 1 THEN "2020-02-01" ELSE "2021-03-04")
      [] field = "amount" -> JNum(20375 + i)
      [] field = "vat_amount" -> JNum(3674 + i)
      [] field = "invoice_number" ->
            JStr(IF i = 1 THEN "12345678" ELSE IF i = 2 THEN "4711"
                 ELSE "1234567")
      [] field = "odometer_km" -> JNum(387550 + i)
      [] OTHER ->
            JStr(CASE i = 1 -> "Jarvenpaan Automajor Oy"
                   [] i = 2 -> "Veho Autotalot Oy"
                   [] i = 3 -> "A-Katsastus"
                   [] i = 4 -> "Sulan Katsastus"
                   [] i = 5 -> "First Stop"
                   [] OTHER -> "Euromaster")

Variants == {"none", "first", "second", "rejected"}

\* The outcomes of the rules of a field: nothing matches; rule 1 matches and
\* normalizes; rule 1 matches but normalizes to None and rule 2 yields the
\* value; rule 1 matches but normalizes to None and nothing else matches.
RuleOutcomes(field, variant) ==
    [i \in 1..patterns[field] |->
        CASE variant = "first" /\ i = 1 -> Hit(PatVal(field, 1))
          [] variant = "second" /\ i = 1 -> Rejected
          [] variant = "second" /\ i = 2 -> Hit(PatVal(field, 2))
          [] variant = "rejected" /\ i = 1 -> Rejected
          [] OTHER -> NoMatch]

MkText(assignment, work) ==
    [rules |-> [f \in Fields |-> RuleOutcomes(f, assignment[f])],
     work |-> work, empty |-> FALSE]

\* combined_text == "" (no page, or one page without text).
EmptyText ==
    [rules |-> [f \in Fields |-> RuleOutcomes(f, "none")],
     work |-> <<>>, empty |-> TRUE]

Works == {<<>>, <<"Huolto">>, <<"Huolto", "Jarru">>}

Assignments ==
    {a \in [Fields -> Variants] :
        /\ \A f \in Fields \ {"date"} : a[f] \in {"none", "first"}
        /\ a["vat_amount"] = a["invoice_number"]
        /\ a["invoice_number"] = a["odometer_km"]}

Texts == {MkText(a, w) : a \in Assignments, w \in Works}

(***************************************************************************)
(* _run_ocr: the OCR step record.  The text is stored base64-encoded; the  *)
(* encoding of the empty text is the empty string.                         *)
(***************************************************************************)
b64encode(text) ==
    IF text = EmptyText THEN JStr("") ELSE [kind |-> "base64", of |-> text]

b64decode(encoded) == IF encoded = JStr("") THEN EmptyText ELSE encoded.of

\* What pdf2image/pytesseract do: raise, or return the combined text.
OcrOutcomes(T) ==
    {[ok |-> FALSE]} \cup {[ok |-> TRUE, text |-> t] : t \in T \cup {EmptyText}}

run_ocr(outcome) ==
    IF outcome.ok
    THEN [step_name |-> "ocr", step_number |-> 1,
          output |-> [text |-> b64encode(outcome.text)]]
    ELSE [step_name |-> "ocr", step_number |-> 1,
          output |-> <<>>, error |-> "ocr_exception"]

\* Mutant of OcrHasText: the key is looked up but its truth value is not taken.
OcrHasText_key_only(step) == "text" \in DOMAIN step.output

\* ocr_result.get("output", {}).get("text"), taken as a truth value.
OcrHasText(step) ==
    /\ "text" \in DOMAIN step.output
    /\ step.output.text # JStr("")

(***************************************************************************)
(* _run_parsing: per field, the rules in order; the first rule that        *)
(* matches and whose parser returns a value other than None decides.       *)
(***************************************************************************)
\* Mutant of try_rules: the first rule that matches decides, whatever its
\* parser returned.
try_rules_first_match(outcomes, i) ==
    IF \E k \in i..Len(outcomes) : outcomes[k].matched
    THEN outcomes[CHOOSE k \in i..Len(outcomes) :
                     /\ outcomes[k].matched
                     /\ \A j \in i..(k - 1) : ~outcomes[j].matched].value
    ELSE JNull

RECURSIVE try_rules(_, _)
try_rules(outcomes, i) ==
    IF i > Len(outcomes) THEN JNull
    ELSE IF outcomes[i].matched /\ outcomes[i].value # JNull
         THEN outcomes[i].value
         ELSE try_rules(outcomes, i + 1)

parsed_fields(text) ==
    LET found == {f \in Fields : try_rules(text.rules[f], 1) # JNull}
    IN  JObj([f \in found |-> try_rules(text.rules[f], 1)])

\* The parsing step; its extracted_fields dict lives at heap reference "dp".
run_parsing(text) ==
    [step_name |-> "parsing", step_number |-> 2,
     extracted_fields |-> "dp",
     missing_fields |-> required_fields \ Keys(parsed_fields(text))]

MaxDescriptions == 10

\* extract_work_description: the distinct service terms, at most ten.
extract_work_description(text) ==
    SubSeq(text.work, 1,
           IF Len(text.work) < MaxDescriptions THEN Len(text.work)
           ELSE MaxDescriptions)

(***************************************************************************)
(* LLMExtractor.extract_from_text: one POST to the model; any exception    *)
(* becomes an "error" entry with an empty field set.                       *)
(***************************************************************************)
LlmFailures == {"transport_error", "timeout", "http_error", "invalid_json"}

extract_from_text(reply) ==
    IF reply.outcome = "json"
    THEN [extracted_fields |-> reply.value, missing_fields |-> {},
          raw_response |-> reply.value]
    ELSE [extracted_fields |-> EmptyDict, missing_fields |-> {"error"},
          error |-> reply.outcome]

\* The value step["extracted_fields"] is bound to when the step is returned.
llm_step_fields(reply) ==
    LET result == extract_from_text(reply)
    IN  IF "error" \in DOMAIN result THEN EmptyDict
        ELSE result.extracted_fields

\* _run_llm_extraction: the step record; extracted_fields is at heap
\* reference "dl".  A result that is no dict has no keys(): the
\* AttributeError is caught after extracted_fields was already assigned.
run_llm_extraction(reply) ==
    LET result == extract_from_text(reply)
        base == [step_name |-> "llm_extraction", step_number |-> 3,
                 extracted_fields |-> "dl", missing_fields |-> {}]
    IN  IF "error" \in DOMAIN result
        THEN base @@ [error |-> result.error]
        ELSE IF result.extracted_fields.kind # "object"
        THEN base @@ [error |-> "AttributeError"]
        ELSE [base EXCEPT !.missing_fields =
                    required_fields \ Keys(result.extracted_fields)]
             @@ [raw_response |-> result.raw_response]

(***************************************************************************)
(* The replies of the model server: a failure, or a "response" text that   *)
(* json.loads turns into some JSON value, not necessarily an object.       *)
(***************************************************************************)
LlmKeys == required_fields \cup {"vat_amount"}

LlmVal(field) ==
    CASE field = "date" -> JStr("2019-09-09")
      [] field = "amount" -> JNum(9999)
      [] field = "vat_amount" -> JNum(1935)
      [] OTHER -> JStr("Euromaster")

ObjectValues ==
    {JObj([k \in S |-> IF k \in N THEN JNull ELSE LlmVal(k)]) :
        S \in SUBSET LlmKeys, N \in SUBSET LlmKeys}

NonObjectValues ==
    {JNull, JNum(5), JArr(<<>>), JArr(<<JStr("date")>>), JArr(<<JStr("note")>>),
     JStr("date"), JStr("n/a")}

\* Objects whose values are not of the kind the prompt asks for: json.loads
\* returns whatever JSON the model wrote.
OtherObjectValues ==
    {JObj([amount |-> JStr("203,75 EUR")]),
     JObj([date |-> JStr("15.03.2020"), amount |-> JNum(9999),
           company |-> JStr("Euromaster")])}

Replies ==
    {[outcome |-> o] : o \in LlmFailures}
        \cup {[outcome |-> "json", value |-> v] :
                v \in ObjectValues \cup NonObjectValues
                        \cup OtherObjectValues}

(***************************************************************************)
(* State.                                                                  *)
(***************************************************************************)
VARIABLES
    mode,                   \* self.mode
    pc,                     \* where process_pdf stands
    pdf,                    \* pdf_path.name of the run
    ocr_text,               \* the decoded OCR text
    heap,                   \* the dict objects of the run, by reference
    processing_steps,       \* result["processing_steps"]
    final_extracted_fields, \* the local variable (a reference)
    final_data,             \* result["final_data"] (a reference)
    field_sources,          \* the local variable
    metadata,               \* result["metadata"]
    files,                  \* extracted/<pdf>/data.json, per pdf
    runs,                   \* process_pdf calls so far (also the clock)
    ocr_calls,              \* OCR runs of the current process_pdf call
    llm_calls,              \* requests.post calls of the current call
    llm_reply,              \* what the last requests.post call met
    caller,                 \* who called process_pdf
    pdf_files,              \* process_directory: the PDFs still to visit
    results_summary,        \* process_directory: results_summary
    verified_dir,           \* site.py: verified/<pdf>/{verified,override}.json
    site_pc,                \* site.py: where build_site stands
    todo,                   \* site.py: the PDFs the current loop has to visit
    valid_count,            \* validate_source_data: valid_count
    invalid_count,          \* validate_source_data: invalid_count
    date_conflicts,         \* process_and_rename_files: date_conflicts
    service_data,           \* self.service_data
    analytics,              \* what calculate_analytics returned or raised
    loaded,                 \* the load_service_data_with_overrides calls made
    call,                   \* a function of the repository called on its own
    ret                     \* what that call returned

extractVars ==
    <<mode, pc, pdf, ocr_text, heap, processing_steps, final_extracted_fields,
      final_data, field_sources, metadata, files, runs, ocr_calls, llm_calls,
      llm_reply, caller, pdf_files, results_summary>>

siteVars ==
    <<verified_dir, site_pc, todo, valid_count, invalid_count, date_conflicts,
      service_data, analytics, loaded>>

fnVars == <<call, ret>>

vars == <<extractVars, siteVars, fnVars>>

runVars ==
    <<pdf, ocr_text, heap, processing_steps, final_extracted_fields,
      final_data, field_sources, metadata, ocr_calls, llm_calls, llm_reply>>

batchVars == <<caller, pdf_files, results_summary>>

Pdfs == {"a.pdf", "b.pdf"}

NoFile == [exists |-> FALSE]
NoText == [rules |-> <<>>, work |-> <<>>, empty |-> TRUE]
NoReply == [outcome |-> "none"]

\* A step as json.dump writes it: its extracted_fields dict by value.
StepView(step, h) ==
    IF "extracted_fields" \in DOMAIN step
    THEN [step EXCEPT !.extracted_fields = h[step.extracted_fields]]
    ELSE step

\* The result dictionary as json.dump writes it.
Artifact ==
    [exists |-> TRUE,
     final_data |-> heap[final_data],
     processing_steps |->
        [i \in 1..Len(processing_steps) |-> StepView(processing_steps[i], heap)],
     metadata |-> metadata]

ExtractInit ==
    /\ mode \in Modes
    /\ pc = "idle"
    /\ pdf = "none"
    /\ ocr_text = NoText
    /\ heap = <<>>
    /\ processing_steps = <<>>
    /\ final_extracted_fields = "none"
    /\ final_data = "none"
    /\ field_sources = <<>>
    /\ metadata = <<>>
    /\ files = [d \in Pdfs |-> NoFile]
    /\ runs = 0
    /\ ocr_calls = 0
    /\ llm_calls = 0
    /\ llm_reply = NoReply
    /\ caller = "none"
    /\ pdf_files = {}
    /\ results_summary = <<>>

\* No site build is under way: site.py has not been started.
SiteIdle ==
    /\ verified_dir = [d \in Pdfs |-> [verified |-> NoFile, override |-> NoFile]]
    /\ site_pc = "idle"
    /\ todo = {}
    /\ valid_count = 0
    /\ invalid_count = 0
    /\ date_conflicts = {}
    /\ service_data = <<>>
    /\ analytics = "none"
    /\ loaded = {}

\* No function has been called on its own.
FnIdle ==
    /\ call = [fn |-> "none"]
    /\ ret = [done |-> FALSE]

Init == ExtractInit /\ SiteIdle /\ FnIdle

(***************************************************************************)
(* process_pdf, step by step.                                             *)
(***************************************************************************)
\* Lines 161-174: the fresh result dictionary.
process_pdf_enter(d) ==
    /\ pdf' = d
    /\ pc' = "pending"
    /\ ocr_text' = NoText
    /\ heap' = [r \in {"dr"} |-> EmptyDict]
    /\ processing_steps' = <<>>
    /\ final_extracted_fields' = "none"
    /\ final_data' = "dr"
    /\ field_sources' = <<>>
    /\ metadata' = [source_file |-> d, processed_at |-> runs + 1]
    /\ runs' = runs + 1
    /\ ocr_calls' = 0
    /\ llm_calls' = 0
    /\ llm_reply' = NoReply
    /\ UNCHANGED files
    /\ UNCHANGED <<siteVars, fnVars>>

\* Mutant of RunOcr: a failed OCR stage is run again.
RunOcr_retry(T) ==
    /\ pc = "pending"
    /\ \E o \in OcrOutcomes(T) :
          /\ processing_steps' = Append(processing_steps, run_ocr(o))
          /\ pc' = IF o.ok THEN "ocr_done" ELSE "pending"
    /\ ocr_calls' = ocr_calls + 1
    /\ UNCHANGED <<mode, pdf, ocr_text, heap, final_extracted_fields,
                   final_data, field_sources, metadata, files, runs,
                   llm_calls, llm_reply, batchVars>>
    /\ UNCHANGED <<siteVars, fnVars>>

\* Lines 176-178: step 1, OCR.
RunOcr(T) ==
    /\ pc = "pending"
    /\ \E o \in OcrOutcomes(T) :
          processing_steps' = Append(processing_steps, run_ocr(o))
    /\ ocr_calls' = ocr_calls + 1
    /\ pc' = "ocr_done"
    /\ UNCHANGED <<mode, pdf, ocr_text, heap, final_extracted_fields,
                   final_data, field_sources, metadata, files, runs,
                   llm_calls, llm_reply, batchVars>>
    /\ UNCHANGED <<siteVars, fnVars>>

\* _save_results: data.json is (over)written with the result as it stands.
save_results(meta) ==
    files' = [files EXCEPT ![pdf] = [Artifact EXCEPT !.metadata = meta]]

\* Lines 180-183: no OCR text, the result is saved with an error and returned.
OcrFailed ==
    /\ pc = "ocr_done"
    /\ ~OcrHasText(processing_steps[1])
    /\ metadata' = metadata @@ [error |-> "OCR failed to extract text"]
    /\ save_results(metadata')
    /\ pc' = "failed"
    /\ UNCHANGED <<mode, pdf, ocr_text, heap, processing_steps,
                   final_extracted_fields, final_data, field_sources, runs,
                   ocr_calls, llm_calls, llm_reply, batchVars>>
    /\ UNCHANGED <<siteVars, fnVars>>

\* Lines 186-190: the text is decoded; the two locals start empty.
Decode ==
    /\ pc = "ocr_done"
    /\ OcrHasText(processing_steps[1])
    /\ ocr_text' = b64decode(processing_steps[1].output.text)
    /\ heap' = heap @@ [r \in {"d0"} |-> EmptyDict]
    /\ final_extracted_fields' = "d0"
    /\ field_sources' = <<>>
    /\ pc' = "decoded"
    /\ UNCHANGED <<mode, pdf, processing_steps, final_data, metadata, files,
                   runs, ocr_calls, llm_calls, llm_reply, batchVars>>
    /\ UNCHANGED <<siteVars, fnVars>>

\* Lines 198-201 and 213-216: the pattern stage; final_extracted_fields is a
\* copy ("dc") of the step's dict ("dp").
RunParsing ==
    /\ pc = "decoded"
    /\ mode \in {"pattern_only", "full_pipeline"}
    /\ processing_steps' = Append(processing_steps, run_parsing(ocr_text))
    /\ heap' = heap @@ [r \in {"dp", "dc"} |-> parsed_fields(ocr_text)]
    /\ final_extracted_fields' = "dc"
    /\ field_sources' = [f \in Keys(parsed_fields(ocr_text)) |-> "parsing"]
    /\ pc' = "pattern_done"
    /\ UNCHANGED <<mode, pdf, ocr_text, final_data, metadata, files, runs,
                   ocr_calls, llm_calls, llm_reply, batchVars>>
    /\ UNCHANGED <<siteVars, fnVars>>

\* Mutant of missing_required: every required field counts as missing.
missing_required_all(extracted) == required_fields

\* Line 219.
missing_required(extracted) == required_fields \ Keys(extracted)

\* Lines 228-229: the loop raises TypeError when llm_fields is no container,
\* or is a list or a str that holds the field and is then indexed by it.
MergeLoopRaises(missing, llm_fields) ==
    /\ missing # {}
    /\ \/ ~SupportsIn(llm_fields)
       \/ \E f \in missing :
             Contains(llm_fields, f) /\ ~SupportsStrIndex(llm_fields)

\* Mutant of AcceptedFromLlm: every field the fallback names is accepted.
AcceptedFromLlm_any_field(missing, llm_fields) ==
    IF llm_fields.kind = "object"
    THEN {f \in Keys(llm_fields) : llm_fields.map[f] # JNull}
    ELSE {}

\* Lines 228-231: the fields whose fallback value is accepted.
AcceptedFromLlm(missing, llm_fields) ==
    {f \in missing : Contains(llm_fields, f) /\ llm_fields.map[f] # JNull}

\* Lines 219-232: the fallback stage of the full pipeline and its merge.
RunLlmFallback(R) ==
    /\ pc = "pattern_done"
    /\ mode = "full_pipeline"
    /\ missing_required(heap[final_extracted_fields]) # {}
    /\ \E reply \in R :
        LET missing == missing_required(heap[final_extracted_fields])
            llm_fields == llm_step_fields(reply)
            accepted == AcceptedFromLlm(missing, llm_fields)
            old == heap[final_extracted_fields]
        IN  /\ llm_reply' = reply
            /\ processing_steps' =
                  Append(processing_steps, run_llm_extraction(reply))
            /\ IF MergeLoopRaises(missing, llm_fields)
               THEN /\ pc' = "raised"
                    /\ heap' = heap @@ [r \in {"dl"} |-> llm_fields]
                    /\ UNCHANGED field_sources
               ELSE /\ pc' = "fallback_done"
                    /\ heap' =
                         [r \in DOMAIN heap \cup {"dl"} |->
                            IF r = "dl" THEN llm_fields
                            ELSE IF r = final_extracted_fields
                            THEN JObj([f \in Keys(old) \cup accepted |->
                                        IF f \in accepted
                                        THEN llm_fields.map[f]
                                        ELSE old.map[f]])
                            ELSE heap[r]]
                    /\ field_sources' =
                         [f \in DOMAIN field_sources \cup accepted |->
                            IF f \in accepted THEN "llm"
                            ELSE field_sources[f]]
    /\ llm_calls' = llm_calls + 1
    /\ UNCHANGED <<mode, pdf, ocr_text, final_extracted_fields, final_data,
                   metadata, files, runs, ocr_calls, batchVars>>
    /\ UNCHANGED <<siteVars, fnVars>>

\* Lines 205-209: llm_only; final_extracted_fields is the step's own dict
\* ("dl", no copy), and the comprehension iterates over whatever it is.
RunLlmOnly(R) ==
    /\ pc = "decoded"
    /\ mode = "llm_only"
    /\ \E reply \in R :
        LET llm_fields == llm_step_fields(reply)
        IN  /\ llm_reply' = reply
            /\ processing_steps' =
                  Append(processing_steps, run_llm_extraction(reply))
            /\ heap' = heap @@ [r \in {"dl"} |-> llm_fields]
            /\ final_extracted_fields' = "dl"
            /\ IF Iterable(llm_fields)
               THEN /\ field_sources' =
                         [f \in IterKeys(llm_fields) |-> "llm"]
                    /\ pc' = "fallback_done"
               ELSE /\ UNCHANGED field_sources
                    /\ pc' = "raised"
    /\ llm_calls' = llm_calls + 1
    /\ UNCHANGED <<mode, pdf, ocr_text, final_data, metadata, files, runs,
                   ocr_calls, batchVars>>
    /\ UNCHANGED <<siteVars, fnVars>>

\* The extraction stages of the mode are over.
MergeReady ==
    \/ pc = "decoded" /\ mode = "ocr_only"
    \/ /\ pc = "pattern_done"
       /\ \/ mode = "pattern_only"
          \/ missing_required(heap[final_extracted_fields]) = {}
    \/ pc = "fallback_done"

work_description_value(work) == JArr([i \in 1..Len(work) |-> JStr(work[i])])

\* Lines 234-248: final_data is bound to final_extracted_fields (the same
\* object), the work descriptions are written into it, and field_sources
\* goes into the metadata.
Merge ==
    /\ MergeReady
    /\ LET work_desc == extract_work_description(ocr_text)
           target == heap[final_extracted_fields]
       IN  /\ final_data' = final_extracted_fields
           /\ IF work_desc = <<>>
              THEN /\ UNCHANGED <<heap, field_sources>>
                   /\ metadata' = metadata @@ [field_sources |-> field_sources]
                   /\ pc' = "merged"
              ELSE IF target.kind # "object"
              THEN /\ UNCHANGED <<heap, field_sources, metadata>>
                   /\ pc' = "raised"
              ELSE /\ heap' = [heap EXCEPT ![final_extracted_fields] =
                                  DictSet(target, "work_description",
                                          work_description_value(work_desc))]
                   /\ field_sources' =
                        [f \in DOMAIN field_sources \cup {"work_description"} |->
                            IF f = "work_description" THEN "parsing"
                            ELSE field_sources[f]]
                   /\ metadata' = metadata @@ [field_sources |-> field_sources']
                   /\ pc' = "merged"
    /\ UNCHANGED <<mode, pdf, ocr_text, processing_steps,
                   final_extracted_fields, files, runs, ocr_calls, llm_calls,
                   llm_reply, batchVars>>
    /\ UNCHANGED <<siteVars, fnVars>>

\* Lines 250-253: the result is saved and returned.
Save ==
    /\ pc = "merged"
    /\ save_results(metadata)
    /\ pc' = "persisted"
    /\ UNCHANGED <<mode, runVars, runs, batchVars>>
    /\ UNCHANGED <<siteVars, fnVars>>

\* A direct call of process_pdf, as by a library user.
CallProcessPdf ==
    /\ pc = "idle"
    /\ caller = "none"
    /\ runs = 0
    /\ \E d \in Pdfs : process_pdf_enter(d)
    /\ UNCHANGED <<mode, batchVars>>

Pipeline(T, R) ==
    \/ RunOcr(T)
    \/ OcrFailed
    \/ Decode
    \/ RunParsing
    \/ RunLlmFallback(R)
    \/ RunLlmOnly(R)
    \/ Merge
    \/ Save

Next == CallProcessPdf \/ Pipeline(Texts, Replies)

Spec == Init /\ [][Next]_vars

(***************************************************************************)
(* main and process_directory: the program run again and again on the     *)
(* same receipts/ and extracted/ directories.                              *)
(***************************************************************************)
MaxRuns == 2

BatchTexts ==
    {MkText([f \in Fields |-> "first"], <<"Huolto">>),
     MkText([f \in Fields |-> IF f = "amount" THEN "none" ELSE "first"], <<>>)}

BatchReplies ==
    {[outcome |-> "timeout"],
     [outcome |-> "json", value |-> JObj([k \in {"amount"} |-> LlmVal(k)])],
     [outcome |-> "json", value |-> JNull]}

\* Lines 499-505: main on one PDF file; process_pdf is called whether or not
\* extracted/<pdf>/data.json exists.
MainSingleFile ==
    /\ pc = "idle"
    /\ caller = "none"
    /\ runs < MaxRuns
    /\ \E m \in Modes, d \in Pdfs :
          /\ mode' = m
          /\ process_pdf_enter(d)
    /\ caller' = "main"
    /\ UNCHANGED <<pdf_files, results_summary>>

\* Lines 507-515: main prints the result (or dies of the exception).
MainExit ==
    /\ caller = "main"
    /\ pc \in {"persisted", "failed", "raised"}
    /\ pc' = "idle"
    /\ caller' = "none"
    /\ UNCHANGED <<mode, runVars, files, runs, pdf_files, results_summary>>
    /\ UNCHANGED <<siteVars, fnVars>>

\* Lines 517-519 and 397-406: main on a directory.  A batch is started only
\* when MaxRuns leaves room for every process_pdf call it will make, so that
\* the bound never stops the loop half way.
MainDirectory ==
    /\ pc = "idle"
    /\ caller = "none"
    /\ runs + Cardinality({d \in Pdfs : ~files[d].exists}) <= MaxRuns
    /\ \E m \in Modes : mode' = m
    /\ caller' = "process_directory"
    /\ pdf_files' = Pdfs
    /\ results_summary' = <<>>
    /\ UNCHANGED <<pc, runVars, files, runs>>
    /\ UNCHANGED <<siteVars, fnVars>>

\* Lines 410-414: a PDF whose data.json exists is skipped.
DirSkip ==
    /\ caller = "process_directory"
    /\ pc = "idle"
    /\ \E d \in pdf_files :
          /\ files[d].exists
          /\ pdf_files' = pdf_files \ {d}
    /\ UNCHANGED <<mode, pc, runVars, files, runs, caller, results_summary>>
    /\ UNCHANGED <<siteVars, fnVars>>

\* Lines 416-417: process_pdf is called for the PDF.
DirProcess ==
    /\ caller = "process_directory"
    /\ pc = "idle"
    /\ \E d \in pdf_files :
          /\ ~files[d].exists
          /\ pdf_files' = pdf_files \ {d}
          /\ process_pdf_enter(d)
    /\ UNCHANGED <<mode, caller, results_summary>>

\* Lines 420-429: the summary of the file, from the returned result.  A
\* final_data that is no dict has no keys(): the handler of lines 435-440
\* records the AttributeError.
file_summary(result_final_data, last_step) ==
    IF result_final_data.kind # "object"
    THEN [file |-> pdf, error |-> "AttributeError"]
    ELSE LET missing == IF "missing_fields" \in DOMAIN last_step
                        THEN last_step.missing_fields ELSE {}
         IN  [file |-> pdf,
              extracted_fields |-> Keys(result_final_data),
              missing_required |-> missing,
              success |-> (missing = {})]

DirReturn ==
    /\ caller = "process_directory"
    /\ pc \in {"persisted", "failed"}
    /\ results_summary' =
          Append(results_summary,
                 file_summary(heap[final_data],
                              processing_steps[Len(processing_steps)]))
    /\ pc' = "idle"
    /\ UNCHANGED <<mode, runVars, files, runs, caller, pdf_files>>
    /\ UNCHANGED <<siteVars, fnVars>>

\* Mutant of DirExcept: the exception leaves process_directory.
DirExcept_propagates ==
    /\ caller = "process_directory"
    /\ pc = "raised"
    /\ pc' = "idle"
    /\ caller' = "none"
    /\ UNCHANGED <<mode, runVars, files, runs, pdf_files, results_summary>>
    /\ UNCHANGED <<siteVars, fnVars>>

\* Lines 435-440: an exception out of process_pdf is recorded.
DirExcept ==
    /\ caller = "process_directory"
    /\ pc = "raised"
    /\ results_summary' =
          Append(results_summary, [file |-> pdf, error |-> "TypeError"])
    /\ pc' = "idle"
    /\ UNCHANGED <<mode, runVars, files, runs, caller, pdf_files>>
    /\ UNCHANGED <<siteVars, fnVars>>

\* Lines 442-461: the summary is printed and process_directory returns.
DirSummary ==
    /\ caller = "process_directory"
    /\ pc = "idle"
    /\ pdf_files = {}
    /\ caller' = "none"
    /\ UNCHANGED <<mode, pc, runVars, files, runs, pdf_files, results_summary>>
    /\ UNCHANGED <<siteVars, fnVars>>

NextBatch ==
    \/ MainSingleFile
    \/ MainExit
    \/ MainDirectory
    \/ DirSkip
    \/ DirProcess
    \/ DirReturn
    \/ DirExcept
    \/ DirSummary
    \/ Pipeline(BatchTexts, BatchReplies)

SpecBatch == Init /\ [][NextBatch]_vars

\* process_directory is sequential code: while it runs, its next statement
\* is eventually executed.
DirectoryStep ==
    \/ DirSkip
    \/ DirProcess
    \/ DirReturn
    \/ DirExcept
    \/ DirSummary
    \/ Pipeline(BatchTexts, BatchReplies)

SpecBatchFair == SpecBatch /\ WF_vars(DirectoryStep)

(***************************************************************************)
(* site.py: ServiceHistorySiteManager.  The dicts of verified.json and     *)
(* override.json are functions from keys to JSON values.                   *)
(***************************************************************************)
\* dict.get(key): None when the key is missing.
dict_get(d, k) == IF k \in DOMAIN d THEN d[k] ELSE JNull

\* `not v` for the values a date can have.
Falsy(v) == v \in {JNull, JStr(""), JNum(0)}

Digits == <<"0", "1", "2", "3", "4", "5", "6", "7", "8", "9">>

IsDigit(c) == c \in Range(Digits)

DigitVal(c) == (CHOOSE i \in DOMAIN Digits : Digits[i] = c) - 1

AllDigits(cs) == cs # <<>> /\ \A i \in DOMAIN cs : IsDigit(cs[i])

\* int() of a string of digits.
RECURSIVE ToInt(_)
ToInt(cs) ==
    IF cs = <<>> THEN 0
    ELSE 10 * ToInt(SubSeq(cs, 1, Len(cs) - 1)) + DigitVal(cs[Len(cs)])

IsLeap(y) == (y % 4 = 0 /\ y % 100 # 0) \/ y % 400 = 0

DaysInMonth(y, m) ==
    IF m = 2 THEN (IF IsLeap(y) THEN 29 ELSE 28)
    ELSE IF m \in {4, 6, 9, 11} THEN 30 ELSE 31

\* datetime(year, month, day) does not raise ValueError.
ValidYMD(y, m, d) ==
    /\ y >= 1
    /\ m \in 1..12
    /\ d \in 1..DaysInMonth(y, m)

\* datetime.strptime(date, "%Y-%m-%d") returns: four digits, "-", one or
\* two digits, "-", one or two digits, nothing else, and a calendar date.
strptime_ok(cs) ==
    \E i \in 1..2, j \in 1..2 :
        /\ Len(cs) = 6 + i + j
        /\ AllDigits(SubSeq(cs, 1, 4))
        /\ cs[5] = "-"
        /\ AllDigits(SubSeq(cs, 6, 5 + i))
        /\ cs[6 + i] = "-"
        /\ AllDigits(SubSeq(cs, 7 + i, 6 + i + j))
        /\ ValidYMD(ToInt(SubSeq(cs, 1, 4)), ToInt(SubSeq(cs, 6, 5 + i)),
                    ToInt(SubSeq(cs, 7 + i, 6 + i + j)))

\* The order of str values: by code point, character by character.
CharCode(c) ==
    CASE c = "-" -> 45
      [] c = "." -> 46
      [] IsDigit(c) -> 48 + DigitVal(c)
      [] OTHER -> 120

RECURSIVE StrLess(_, _)
StrLess(a, b) ==
    IF b = <<>> THEN FALSE
    ELSE IF a = <<>> THEN TRUE
    ELSE IF a[1] # b[1] THEN CharCode(a[1]) < CharCode(b[1])
    ELSE StrLess(Tail(a), Tail(b))

\* Mutant of changed_fields: every field the override names counts as changed.
changed_fields_all(original_ground_truth, override_ground_truth) ==
    DOMAIN override_ground_truth

\* Lines 144-146: the fields whose override value differs from the original.
changed_fields(original_ground_truth, override_ground_truth) ==
    {field \in DOMAIN override_ground_truth :
        dict_get(original_ground_truth, field) # override_ground_truth[field]}

\* Mutant of no_override_info: the block without its reason.
no_override_info_bare == [has_overrides |-> FALSE, overridden_fields |-> <<>>]

\* Lines 160-164.
no_override_info ==
    [has_overrides |-> FALSE, overridden_fields |-> <<>>, reason |-> JNull]

\* verified_data with its "ground_truth" and "override_info" keys set; the
\* other keys of verified.json stay as they were loaded.
with_ground_truth(verified_data, ground_truth, override_info) ==
    [k \in DOMAIN verified_data \cup {"override_info"} |->
        IF k = "override_info" THEN override_info
        ELSE IF k = "ground_truth" THEN ground_truth
        ELSE verified_data[k]]

\* Mutant of load_service_data_with_overrides: the ground truth of the
\* override replaces the one of verified.json as a whole.
load_service_data_ground_truth_replaced(entry) ==
    LET verified_data == entry.verified.json
        original_ground_truth == verified_data.ground_truth
    IN  IF entry.override.exists
        THEN LET override_data == entry.override.json
                 override_ground_truth ==
                     IF "ground_truth" \in DOMAIN override_data
                     THEN override_data.ground_truth ELSE <<>>
                 changed == changed_fields(original_ground_truth,
                                           override_ground_truth)
                 overridden_fields ==
                     [field \in changed |->
                        [original |-> dict_get(original_ground_truth, field),
                         override |-> override_ground_truth[field]]]
             IN  with_ground_truth(
                     verified_data, override_ground_truth,
                     [has_overrides |-> TRUE,
                      overridden_fields |-> overridden_fields,
                      reason |-> dict_get(override_data, "reason")])
        ELSE with_ground_truth(verified_data, original_ground_truth,
                               no_override_info)

\* Lines 127-166: what load_service_data_with_overrides returns for the files
\* of one verified/<pdf>/ directory.
load_service_data_with_overrides(entry) ==
    LET verified_data == entry.verified.json
        original_ground_truth == verified_data.ground_truth
    IN  IF entry.override.exists
        THEN LET override_data == entry.override.json
                 override_ground_truth ==
                     IF "ground_truth" \in DOMAIN override_data
                     THEN override_data.ground_truth ELSE <<>>
                 changed == changed_fields(original_ground_truth,
                                           override_ground_truth)
                 overridden_fields ==
                     [field \in changed |->
                        [original |-> dict_get(original_ground_truth, field),
                         override |-> override_ground_truth[field]]]
             IN  with_ground_truth(
                     verified_data,
                     [field \in DOMAIN original_ground_truth \cup changed |->
                        IF field \in changed THEN override_ground_truth[field]
                        ELSE original_ground_truth[field]],
                     [has_overrides |-> TRUE,
                      overridden_fields |-> overridden_fields,
                      reason |-> dict_get(override_data, "reason")])
        ELSE with_ground_truth(verified_data, original_ground_truth,
                               no_override_info)

\* The files of the verified/ directory the runs below start from.
JsonFile(json) == [exists |-> TRUE, json |-> json]

Absent == [kind |-> "absent"]

MkDict(r) == [k \in {x \in DOMAIN r : r[x] # Absent} |-> r[k]]

GroundTruthsA ==
    {MkDict([date |-> d, amount |-> a, odometer_km |-> o]) :
        d \in {Absent, JNull, JStr(""), JStr("2020-03-15"),
               JStr("15.03.2020"), JStr("2020-13-45")},
        a \in {Absent, JNum(40)},
        o \in {Absent, JNum(100000)}}

OverrideGroundTruths ==
    {MkDict([date |-> d, amount |-> a]) :
        d \in {Absent, JNull, JStr("2020-03-15")},
        a \in {Absent, JNull, JNum(40), JNum(50)}}

OverridesA ==
    {NoFile, JsonFile([reason |-> JStr("typo")])}
        \cup {JsonFile([ground_truth |-> g]) : g \in OverrideGroundTruths}
        \cup {JsonFile([ground_truth |-> g, reason |-> JStr("typo")]) :
                g \in OverrideGroundTruths}

EntriesA ==
    {[verified |-> NoFile, override |-> NoFile]}
        \cup {[verified |-> JsonFile([ground_truth |-> g]), override |-> o] :
                g \in GroundTruthsA, o \in OverridesA}

GroundTruthB ==
    [date |-> JStr("2020-03-15"), amount |-> JNum(40),
     odometer_km |-> JNum(100000)]

EntriesB ==
    {[verified |-> NoFile, override |-> NoFile],
     [verified |-> JsonFile([ground_truth |-> GroundTruthB]),
      override |-> NoFile],
     [verified |-> JsonFile([ground_truth |-> GroundTruthB]),
      override |-> JsonFile([ground_truth |-> [amount |-> JNum(50)],
                             reason |-> JStr("typo")])],
     [verified |-> JsonFile([ground_truth |->
                    [date |-> JStr("2019-06-01"), odometer_km |-> JNum(90000)]]),
      override |-> NoFile],
     [verified |-> JsonFile([ground_truth |-> GroundTruthB,
                             expected_extraction |->
                                [amount |-> JNum(40), company |-> JNull]]),
      override |-> JsonFile([ground_truth |->
                                [date |-> JStr("2020-03-15"),
                                 amount |-> JNum(50),
                                 company |-> JStr("Veho")]])]}

SiteInit ==
    /\ verified_dir \in
          {[d \in Pdfs |-> IF d = "a.pdf" THEN a ELSE b] :
              a \in EntriesA, b \in EntriesB}
    /\ site_pc = "idle"
    /\ todo = {}
    /\ valid_count = 0
    /\ invalid_count = 0
    /\ date_conflicts = {}
    /\ service_data = <<>>
    /\ analytics = "none"
    /\ loaded = {}

InitSite == ExtractInit /\ mode = "full_pipeline" /\ SiteInit /\ FnIdle

\* One call of load_service_data_with_overrides, as the caller sees it: the
\* files it read and the record it returned.
LoadCall(d) ==
    [pdf |-> d, files |-> verified_dir[d],
     result |-> load_service_data_with_overrides(verified_dir[d])]

\* Mutant of Load: the reconciled ground truth replaces the one of
\* verified.json.
Load_written_back(d) ==
    /\ loaded' = loaded \cup {LoadCall(d)}
    /\ verified_dir' =
          [verified_dir EXCEPT ![d].verified.json.ground_truth =
              LoadCall(d).result.ground_truth]

\* Lines 127-166: both files are opened for reading only; verified_data is
\* the freshly loaded object, changed in place and returned.
Load(d) ==
    /\ loaded' = loaded \cup {LoadCall(d)}
    /\ UNCHANGED verified_dir

\* load_service_data_with_overrides called from outside a build.
CallLoad ==
    /\ site_pc \in {"idle", "validation_failed", "aborted", "built"}
    /\ \E d \in Pdfs : verified_dir[d].verified.exists /\ Load(d)
    /\ UNCHANGED <<site_pc, todo, valid_count, invalid_count, date_conflicts,
                   service_data, analytics>>
    /\ UNCHANGED <<extractVars, fnVars>>

\* Lines 44-52 and 67-77: build_site starts with validate_source_data.
BuildStart ==
    /\ site_pc = "idle"
    /\ site_pc' = "validating"
    /\ todo' = Pdfs
    /\ valid_count' = 0
    /\ invalid_count' = 0
    /\ UNCHANGED <<verified_dir, date_conflicts, service_data, analytics,
                   loaded>>
    /\ UNCHANGED <<extractVars, fnVars>>

\* Lines 92-99: the date of the merged data is present and strptime takes it.
DateIsValid(data) ==
    LET date == dict_get(data.ground_truth, "date")
    IN  ~Falsy(date) /\ strptime_ok(Chars(date.str))

\* Lines 79-104: one PDF of the validation loop.
ValidateFile ==
    /\ site_pc = "validating"
    /\ \E d \in todo :
          /\ todo' = todo \ {d}
          /\ IF ~verified_dir[d].verified.exists
             THEN /\ invalid_count' = invalid_count + 1
                  /\ UNCHANGED <<valid_count, loaded, verified_dir>>
             ELSE /\ Load(d)
                  /\ IF DateIsValid(LoadCall(d).result)
                     THEN /\ valid_count' = valid_count + 1
                          /\ UNCHANGED invalid_count
                     ELSE /\ invalid_count' = invalid_count + 1
                          /\ UNCHANGED valid_count
    /\ UNCHANGED <<site_pc, date_conflicts, service_data, analytics>>
    /\ UNCHANGED <<extractVars, fnVars>>

\* Lines 106-107 and 52-57: the build goes on when one receipt was valid.
ValidateEnd ==
    /\ site_pc = "validating"
    /\ todo = {}
    /\ IF valid_count > 0
       THEN /\ site_pc' = "processing"
            /\ todo' = Pdfs
            /\ service_data' = <<>>
            /\ date_conflicts' = {}
       ELSE /\ site_pc' = "validation_failed"
            /\ UNCHANGED <<todo, service_data, date_conflicts>>
    /\ UNCHANGED <<verified_dir, valid_count, invalid_count, analytics, loaded>>
    /\ UNCHANGED <<extractVars, fnVars>>

\* f"{original_date}-{counter}"; counter 1 is the date itself.
DateName(original_date, counter) ==
    IF counter = 1 THEN original_date
    ELSE [kind |-> "string", str |-> original_date.str, suffix |-> counter]

\* Lines 192-196: the first counter whose name is not taken.
FreeCounter(original_date) ==
    CHOOSE n \in 1..(Cardinality(date_conflicts) + 1) :
        /\ DateName(original_date, n) \notin date_conflicts
        /\ \A m \in 1..(n - 1) : DateName(original_date, m) \in date_conflicts

\* Lines 201-214: the service record; the keys of ground_truth (its date
\* among them) come last in the dict display and win.
service_record(d, date, verified_data) ==
    LET extraction ==
            IF files[d].exists THEN [extraction_data |-> files[d]] ELSE <<>>
    IN  extraction @@ verified_data.ground_truth
            @@ [date |-> date, original_filename |-> d,
                renamed_filename |-> date, verified_data |-> verified_data]

\* Lines 175-226: one PDF of process_and_rename_files.  What is copied to
\* site/pdfs and site/data/ocr is named by renamed_filename.
ProcessFile ==
    /\ site_pc = "processing"
    /\ \E d \in todo :
          /\ todo' = todo \ {d}
          /\ IF ~verified_dir[d].verified.exists
             THEN UNCHANGED <<loaded, verified_dir, date_conflicts,
                              service_data>>
             ELSE /\ Load(d)
                  /\ LET verified_data == LoadCall(d).result
                         original_date ==
                             dict_get(verified_data.ground_truth, "date")
                         date == DateName(original_date,
                                          FreeCounter(original_date))
                     IN  IF Falsy(original_date)
                         THEN UNCHANGED <<date_conflicts, service_data>>
                         ELSE /\ date_conflicts' = date_conflicts \cup {date}
                              /\ service_data' =
                                    Append(service_data,
                                           service_record(d, date,
                                                          verified_data))
    /\ UNCHANGED <<site_pc, valid_count, invalid_count, analytics>>
    /\ UNCHANGED <<extractVars, fnVars>>

\* list.sort(key=lambda x: x["date"]): stable, by the date strings.
RECURSIVE InsertByDate(_, _)
InsertByDate(sorted, r) ==
    IF sorted = <<>> THEN <<r>>
    ELSE LET last == sorted[Len(sorted)]
         IN  IF StrLess(Chars(r.date.str), Chars(last.date.str))
             THEN Append(InsertByDate(SubSeq(sorted, 1, Len(sorted) - 1), r),
                         last)
             ELSE Append(sorted, r)

RECURSIVE SortByDate(_)
SortByDate(rs) ==
    IF rs = <<>> THEN <<>>
    ELSE InsertByDate(SortByDate(SubSeq(rs, 1, Len(rs) - 1)), rs[Len(rs)])

\* Lines 228-235: the records are sorted and written to service-history.json.
ProcessEnd ==
    /\ site_pc = "processing"
    /\ todo = {}
    /\ service_data' = SortByDate(service_data)
    /\ site_pc' = "processed"
    /\ UNCHANGED <<verified_dir, todo, valid_count, invalid_count,
                   date_conflicts, analytics, loaded>>
    /\ UNCHANGED <<extractVars, fnVars>>

\* Line 262: service['date'][:4].
year_of(service) ==
    LET cs == Chars(service.date.str)
    IN  SubSeq(cs, 1, IF Len(cs) < 4 THEN Len(cs) ELSE 4)

\* Lines 330-331: the services that have an odometer reading, by date.
services_with_odo ==
    SortByDate(SelectSeq(service_data,
                         LAMBDA sv : /\ "odometer_km" \in DOMAIN sv
                                     /\ ~Falsy(sv.odometer_km)))

\* Lines 338-349 and 393-394: distribute_km_across_years is called for two
\* consecutive readings that grow, and parses both dates.
DistributeRaises ==
    \E i \in 2..Len(services_with_odo) :
        LET current == services_with_odo[i]
            previous == services_with_odo[i - 1]
        IN  /\ current.odometer_km.num - previous.odometer_km.num > 0
            /\ \/ ~strptime_ok(Chars(previous.date.str))
               \/ ~strptime_ok(Chars(current.date.str))

\* Lines 255-290, 298 and 327-349: the years of the records are grouped and
\* turned into int, then the mileage is spread over the years; a ValueError
\* of int() or strptime leaves build_site.  The figures themselves are
\* represented by the years they are keyed by.
CalculateAnalytics ==
    /\ site_pc = "processed"
    /\ IF \/ \E i \in DOMAIN service_data : ~AllDigits(year_of(service_data[i]))
          \/ DistributeRaises
       THEN /\ analytics' = "ValueError"
            /\ site_pc' = "aborted"
       ELSE /\ analytics' =
                  [years |-> {ToInt(year_of(service_data[i])) :
                                 i \in DOMAIN service_data}]
            /\ site_pc' = "built"
    /\ UNCHANGED <<verified_dir, todo, valid_count, invalid_count,
                   date_conflicts, service_data, loaded>>
    /\ UNCHANGED <<extractVars, fnVars>>

NextSite ==
    \/ CallLoad
    \/ BuildStart
    \/ ValidateFile
    \/ ValidateEnd
    \/ ProcessFile
    \/ ProcessEnd
    \/ CalculateAnalytics

SpecSite == InitSite /\ [][NextSite]_vars

(***************************************************************************)
(* Functions called on their own: _run_parsing on a text, _parse_odometer  *)
(* on a match, fix_odometer on a reading.                                   *)
(***************************************************************************)
\* The parsers that can return None are those of date, amount and
\* vat_amount; the other fields' parsers return a value for every match.
CanReject(field) == field \in {"date", "amount", "vat_amount"}

\* What the rules of one field can make of a text, rule by rule.
ChainOutcomes(field) ==
    {o \in [1..patterns[field] -> {"no match", "rejected", "hit"}] :
        \A i \in DOMAIN o : o[i] = "rejected" => CanReject(field)}

\* A text of which only the rules of one field match anything.
ChainText(field, o) ==
    [rules |->
        [f \in Fields |->
            [i \in 1..patterns[f] |->
                IF f # field \/ o[i] = "no match" THEN NoMatch
                ELSE IF o[i] = "rejected" THEN Rejected
                ELSE Hit(PatVal(f, i))]],
     work |-> <<>>, empty |-> FALSE]

ChainTexts ==
    UNION {{ChainText(f, o) : o \in ChainOutcomes(f)} : f \in Fields}

\* str(km) of a non-negative int.
RECURSIVE DigitsOf(_)
DigitsOf(n) ==
    IF n < 10 THEN <<Digits[n + 1]>>
    ELSE Append(DigitsOf(n \div 10), Digits[(n % 10) + 1])

\* Mutant of _parse_odometer: the range check takes 200000 itself.
parse_odometer_from_200000(km_str) ==
    LET km == ToInt(km_str)
        fixed_km == ToInt(Tail(DigitsOf(km)))
    IN  IF km > 1000000 /\ Head(DigitsOf(km)) = "2"
           /\ 200000 <= fixed_km /\ fixed_km < 500000
        THEN fixed_km ELSE km

\* Mutant of _parse_odometer: the stripped value is accepted up to 5,000,000.
parse_odometer_up_to_5000000(km_str) ==
    LET km == ToInt(km_str)
        fixed_km == ToInt(Tail(DigitsOf(km)))
    IN  IF km > 1000000 /\ Head(DigitsOf(km)) = "2"
           /\ 200000 < fixed_km /\ fixed_km < 5000000
        THEN fixed_km ELSE km

\* extract.py lines 118-129: _parse_odometer on the digits of group 1.
parse_odometer(km_str) ==
    LET km == ToInt(km_str)
        fixed_km == ToInt(Tail(DigitsOf(km)))
    IN  IF km > 1000000 /\ Head(DigitsOf(km)) = "2"
           /\ 200000 < fixed_km /\ fixed_km < 500000
        THEN fixed_km ELSE km

\* generate_data_model.py lines 13-22: fix_odometer on a reading.
fix_odometer(km) ==
    LET km_str == DigitsOf(km)
        fixed_km == ToInt(Tail(km_str))
    IN  IF km # 0 /\ km > 1000000
           /\ Head(km_str) = "2" /\ Len(km_str) = 7
           /\ 200000 < fixed_km /\ fixed_km < 500000
        THEN fixed_km ELSE km

(***************************************************************************)
(* The odometer rules of self.patterns (extract.py lines 67-76) on a text  *)
(* given token by token: the label word, ":", " ", "\n", digits and "km".  *)
(* re.IGNORECASE makes the case of the label and of "km" irrelevant.       *)
(***************************************************************************)
\* The first index from `from` on whose token is in S (FirstIn) or is not
\* in S (FirstNotIn); Len(t) + 1 when there is none.
FirstIn(t, from, S) ==
    LET K == {k \in from..Len(t) : t[k] \in S}
    IN  IF K = {} THEN Len(t) + 1 ELSE CHOOSE k \in K : \A j \in K : k <= j

FirstNotIn(t, from, S) ==
    LET K == {k \in from..Len(t) : t[k] \notin S}
    IN  IF K = {} THEN Len(t) + 1 ELSE CHOOSE k \in K : \A j \in K : k <= j

\* What \n, \s and [\s:] take.
Newline == {"\n"}

WhiteSpace == {" ", "\n"}

WhiteSpaceOrColon == {" ", "\n", ":"}

\* t[from..from+n-1] are n digits.
DigitsAt(t, from, n) ==
    /\ from + n - 1 <= Len(t)
    /\ \A k \in from..(from + n - 1) : IsDigit(t[k])

\* re.search finds the leftmost match.
Leftmost(S) == CHOOSE p \in S : \A q \in S : p <= q

\* Rule 1, r'Mittarilukema:.*?\n+(\d{6})': the label and its colon, the rest
\* of the line, the newlines after it, and the six characters that follow.
Rule1Group(t, p) == FirstNotIn(t, FirstIn(t, p + 2, Newline), Newline)

Rule1Starts(t) ==
    {p \in 1..(Len(t) - 1) :
        /\ t[p] = "Mittarilukema"
        /\ t[p + 1] = ":"
        /\ FirstIn(t, p + 2, Newline) <= Len(t)
        /\ DigitsAt(t, Rule1Group(t, p), 6)}

Rule1(t) ==
    IF Rule1Starts(t) = {} THEN <<>>
    ELSE LET g == Rule1Group(t, Leftmost(Rule1Starts(t)))
         IN  SubSeq(t, g, g + 5)

\* Rule 2, r'(?:Mittarilukema|Mittari?lkm|Mileage)[\s:]*(\d+)': the label,
\* any run of white space and colons, and all the digits that follow.
Rule2Group(t, p) == FirstNotIn(t, p + 1, WhiteSpaceOrColon)

Rule2Starts(t) ==
    {p \in 1..Len(t) :
        /\ t[p] = "Mittarilukema"
        /\ DigitsAt(t, Rule2Group(t, p), 1)}

Rule2(t) ==
    IF Rule2Starts(t) = {} THEN <<>>
    ELSE LET g == Rule2Group(t, Leftmost(Rule2Starts(t)))
         IN  SubSeq(t, g, FirstNotIn(t, g, Range(Digits)) - 1)

\* Rule 3, r'(?:^|\n)(\d{6})(?:\n|$)' with re.MULTILINE: six digits that
\* are a whole line.
Rule3Starts(t) ==
    {g \in 1..Len(t) :
        /\ g = 1 \/ t[g - 1] = "\n"
        /\ DigitsAt(t, g, 6)
        /\ g + 6 > Len(t) \/ t[g + 6] = "\n"}

Rule3(t) ==
    IF Rule3Starts(t) = {} THEN <<>>
    ELSE SubSeq(t, Leftmost(Rule3Starts(t)), Leftmost(Rule3Starts(t)) + 5)

\* Rule 4, r'(\d{6,7})\s*km': seven digits, or else six, then white space
\* and "km"; the match may start inside a longer number.
Rule4Matches(t, q, n) ==
    /\ DigitsAt(t, q, n)
    /\ FirstNotIn(t, q + n, WhiteSpace) <= Len(t)
    /\ t[FirstNotIn(t, q + n, WhiteSpace)] = "km"

Rule4Starts(t) ==
    {q \in 1..Len(t) : Rule4Matches(t, q, 7) \/ Rule4Matches(t, q, 6)}

Rule4(t) ==
    IF Rule4Starts(t) = {} THEN <<>>
    ELSE LET q == Leftmost(Rule4Starts(t))
         IN  SubSeq(t, q, IF Rule4Matches(t, q, 7) THEN q + 6 ELSE q + 5)

\* What re.search and _parse_odometer make of the text, rule by rule.
odometer_rules(t) ==
    [i \in 1..patterns["odometer_km"] |->
        LET group == CASE i = 1 -> Rule1(t)
                       [] i = 2 -> Rule2(t)
                       [] i = 3 -> Rule3(t)
                       [] OTHER -> Rule4(t)
        IN  IF group = <<>> THEN NoMatch
            ELSE Hit(JNum(parse_odometer(group)))]

\* extracted_fields.get("odometer_km") of _run_parsing(text).
odometer_km(t) == try_rules(odometer_rules(t), 1)

\* The texts: a reading with or without the label before it, on the same
\* or on the next line, with or without "km" or a newline after it.
OdoPrefixes == {<<>>, <<"Mittarilukema">>, <<"Mittarilukema", ":">>}

OdoSeparators == {<<>>, <<" ">>, <<"\n">>, <<"\n", "\n">>}

OdoReadings ==
    {DigitsOf(n) :
        n \in {38755, 387551, 2200000, 2387551, 2611000, 20387551}}

OdoSuffixes == {<<>>, <<"\n">>, <<" ", "km">>}

OdoTexts ==
    [prefix : OdoPrefixes, sep : OdoSeparators, digits : OdoReadings,
     suffix : OdoSuffixes]

OdoTokens(a) == a.prefix \o a.sep \o a.digits \o a.suffix

\* visualize_timeline.py lines 26-47: clean_odometer_data on the odometer_km
\* of one record; the records are repaired one by one, whatever their order.
clean_odometer_data(km) ==
    LET fixed_km == ToInt(Tail(DigitsOf(km)))
    IN  IF km > 1000000
           /\ 200000 < fixed_km /\ fixed_km < 500000
        THEN fixed_km ELSE km

\* The readings the repair functions are called on: the multiples of
\* 100000 up to KmBlocks * 100000 with their neighbours, and some more.
KmBlocks == 31

KmSamples ==
    {k * 100000 + e : k \in 0..KmBlocks, e \in {0, 1, 99999}}
        \cup {387551, 2387551, 2611000, 12387551, 20200000, 20200001,
              20387551, 20499999, 20500000, 22387551}

\* group(1) of a match: the digits, possibly with a leading zero.
KmStrings ==
    {DigitsOf(n) : n \in KmSamples} \cup {<<"0">> \o DigitsOf(387551)}

(***************************************************************************)
(* The first date rule of self.patterns (extract.py line 39) and its       *)
(* parser _parse_finnish_date (lines 88-97) on a text given character by   *)
(* character.  A str a function returns is the sequence of its characters. *)
(***************************************************************************)
Str(cs) == [kind |-> "string", chars |-> cs]

\* \w, for the characters the texts are made of.
WordChar(c) == IsDigit(c) \/ c \in {"x", "_"}

\* \b before t[p]: exactly one of t[p - 1] and t[p] is a word character.
Boundary(t, p) ==
    (p > 1 /\ WordChar(t[p - 1])) # (p <= Len(t) /\ WordChar(t[p]))

\* r'\b(\d{1,2})\.(\d{1,2})\.(\d{4}|\d{2})\b' matches at p with a day of i,
\* a month of j and a year of k digits.
FinnishDateMatches(t, p, i, j, k) ==
    /\ Boundary(t, p)
    /\ p + i + j + k + 1 <= Len(t)
    /\ AllDigits(SubSeq(t, p, p + i - 1))
    /\ t[p + i] = "."
    /\ AllDigits(SubSeq(t, p + i + 1, p + i + j))
    /\ t[p + i + j + 1] = "."
    /\ AllDigits(SubSeq(t, p + i + j + 2, p + i + j + k + 1))
    /\ Boundary(t, p + i + j + k + 2)

FinnishDateShapes(t) ==
    {m \in (1..Len(t)) \X {1, 2} \X {1, 2} \X {2, 4} :
        FinnishDateMatches(t, m[1], m[2], m[3], m[4])}

\* match.groups() of re.search: the leftmost match (at one place at most
\* one shape matches).
finnish_date_groups(t) ==
    IF FinnishDateShapes(t) = {} THEN [matched |-> FALSE]
    ELSE LET m == CHOOSE x \in FinnishDateShapes(t) :
                     \A y \in FinnishDateShapes(t) : x[1] <= y[1]
             p == m[1]
             i == m[2]
             j == m[3]
             k == m[4]
         IN  [matched |-> TRUE,
              day |-> SubSeq(t, p, p + i - 1),
              month |-> SubSeq(t, p + i + 1, p + i + j),
              year |-> SubSeq(t, p + i + j + 2, p + i + j + k + 1)]

\* "%02d".
RECURSIVE ZeroPad(_, _)
ZeroPad(cs, n) == IF Len(cs) >= n THEN cs ELSE ZeroPad(<<"0">> \o cs, n)

\* strftime("%Y"): the C library decides whether a year below 1000 is
\* padded to four digits (glibc does not pad, other libraries do).
strftime_Y(year) ==
    IF year >= 1000 THEN {DigitsOf(year)}
    ELSE {DigitsOf(year), ZeroPad(DigitsOf(year), 4)}

\* date_obj.strftime("%Y-%m-%d"), every string the build can produce.
strftime_ymd(year, month, day) ==
    {Str(Y \o <<"-">> \o ZeroPad(DigitsOf(month), 2) \o <<"-">>
           \o ZeroPad(DigitsOf(day), 2)) : Y \in strftime_Y(year)}

\* Lines 90-92: the century of a two-digit year.
full_year(year) ==
    IF Len(year) = 2
    THEN (IF ToInt(year) < 50 THEN <<"2", "0">> ELSE <<"1", "9">>) \o year
    ELSE year

\* Lines 88-97: _parse_finnish_date on the groups of a match; None when
\* datetime() raises ValueError.
parse_finnish_date(groups) ==
    LET year == ToInt(full_year(groups.year))
        month == ToInt(groups.month)
        day == ToInt(groups.day)
    IN  IF ValidYMD(year, month, day) THEN strftime_ymd(year, month, day)
        ELSE {JNull}

\* The texts: a day, a month and a year written with dots, alone or with a
\* character before or after.
DateDays == {"1", "01", "15", "28", "29", "30", "31", "32", "00"}

DateMonths == {"1", "2", "02", "04", "12", "13", "00"}

DateYears ==
    {"2020", "1900", "2000", "2023", "9999", "0999", "0001", "0000",
     "20", "00", "49", "50", "99"}

\* The characters of these strings.
DateChars(s) ==
    CASE s = "1" -> <<"1">>
      [] s = "2" -> <<"2">>
      [] s = "01" -> <<"0", "1">>
      [] s = "02" -> <<"0", "2">>
      [] s = "04" -> <<"0", "4">>
      [] s = "12" -> <<"1", "2">>
      [] s = "13" -> <<"1", "3">>
      [] s = "15" -> <<"1", "5">>
      [] s = "28" -> <<"2", "8">>
      [] s = "29" -> <<"2", "9">>
      [] s = "30" -> <<"3", "0">>
      [] s = "31" -> <<"3", "1">>
      [] s = "32" -> <<"3", "2">>
      [] s = "00" -> <<"0", "0">>
      [] s = "20" -> <<"2", "0">>
      [] s = "49" -> <<"4", "9">>
      [] s = "50" -> <<"5", "0">>
      [] s = "99" -> <<"9", "9">>
      [] s = "2020" -> <<"2", "0", "2", "0">>
      [] s = "1900" -> <<"1", "9", "0", "0">>
      [] s = "2000" -> <<"2", "0", "0", "0">>
      [] s = "2023" -> <<"2", "0", "2", "3">>
      [] s = "9999" -> <<"9", "9", "9", "9">>
      [] s = "0999" -> <<"0", "9", "9", "9">>
      [] s = "0001" -> <<"0", "0", "0", "1">>
      [] OTHER -> <<"0", "0", "0", "0">>

DateAround == {<<>>, <<" ">>, <<"x">>}

DateTexts ==
    [prefix : DateAround, day : DateDays, month : DateMonths,
     year : DateYears, suffix : DateAround]

DateTokens(a) ==
    a.prefix \o DateChars(a.day) \o <<".">> \o DateChars(a.month) \o <<".">>
        \o DateChars(a.year) \o a.suffix

(***************************************************************************)
(* src/extract_complex_receipts.py: EnhancedReceiptExtractor.  The part of *)
(* a text that decides the vendor is given word by word (a and o stand for *)
(* the letters with diaeresis); the rest of it is given by what the        *)
(* patterns of the routine that runs find in it.                           *)
(***************************************************************************)
\* str.lower() of a word; the pattern searches ignore case as well.
Lower(w) ==
    CASE w \in {"JARVENPAAN", "Jarvenpaan"} -> "jarvenpaan"
      [] w \in {"AUTOMAJOR", "Automajor"} -> "automajor"
      [] w \in {"VEHO", "Veho"} -> "veho"
      [] w \in {"AUTOTALOT", "Autotalot"} -> "autotalot"
      [] w \in {"A-KATSASTUS", "A-Katsastus"} -> "a-katsastus"
      [] w \in {"SULAN", "Sulan"} -> "sulan"
      [] w \in {"KATSASTUS", "Katsastus"} -> "katsastus"
      [] w \in {"FIRST", "First"} -> "first"
      [] w \in {"STOP", "Stop"} -> "stop"
      [] w \in {"EUROMASTER", "Euromaster"} -> "euromaster"
      [] w \in {"INSPECTION", "Inspection"} -> "inspection"
      [] OTHER -> w

\* needle in word.lower(), for the needles of lines 91-98.
WordHas(w, needle) ==
    \/ Lower(w) = needle
    \/ Lower(w) = "a-katsastus" /\ needle = "katsastus"

\* needle in text.lower().
TextHas(t, needle) == \E p \in 1..Len(t) : WordHas(t[p], needle)

\* re.search(r'a\s+b', text, re.IGNORECASE).
SpacedPair(t, a, b) ==
    \E p \in 1..Len(t) :
        LET q == FirstNotIn(t, p + 1, WhiteSpace)
        IN  /\ WordHas(t[p], a)
            /\ q > p + 1
            /\ q <= Len(t)
            /\ Lower(t[q]) = b

\* re.search(r'a.*b', text, re.IGNORECASE): both on one line.
SameLinePair(t, a, b) ==
    \E p \in 1..Len(t), q \in 1..Len(t) :
        /\ p < q
        /\ WordHas(t[p], a)
        /\ Lower(t[q]) = b
        /\ \A k \in (p + 1)..(q - 1) : t[k] \notin Newline

\* Lines 43-50: the keys of company_patterns, in insertion order.
company_names ==
    <<"Jarvenpaan Automajor", "Veho Autotalot", "A-Katsastus",
      "Sulan Katsastus", "First Stop", "Euromaster">>

\* Lines 43-50: re.search of the i-th pattern finds something.
company_pattern_found(i, t) ==
    CASE i = 1 -> SpacedPair(t, "jarvenpaan", "automajor")
      [] i = 2 -> \/ SameLinePair(t, "veho", "autotalot")
                  \/ SpacedPair(t, "veho", "autotalot")
      [] i = 3 -> TextHas(t, "a-katsastus")
      [] i = 4 -> SpacedPair(t, "sulan", "katsastus")
      [] i = 5 -> SameLinePair(t, "first", "stop")
      [] OTHER -> TextHas(t, "euromaster")

\* Lines 102-107: identify_company, from the i-th pattern on.
RECURSIVE identify_company(_, _)
identify_company(t, i) ==
    IF i > Len(company_names) THEN JNull
    ELSE IF company_pattern_found(i, t) THEN JStr(company_names[i])
         ELSE identify_company(t, i + 1)

\* needle in company.lower(), for the needles of lines 93-97.
CompanyHas(company, needle) ==
    <<company, needle>> \in
        {<<"Veho Autotalot", "veho">>, <<"Jarvenpaan Automajor", "jarvenpaan">>,
         <<"First Stop", "first stop">>, <<"Euromaster", "euromaster">>}

\* Lines 86-88.
classified_company(t) ==
    IF identify_company(t, 1) = JNull THEN "Unknown"
    ELSE identify_company(t, 1).str

\* Lines 91-100: the routine parse_receipt_from_text hands the text to.
receipt_routine(t) ==
    LET company == classified_company(t)
    IN  IF TextHas(t, "katsastus") \/ TextHas(t, "inspection")
        THEN "parse_inspection_receipt"
        ELSE IF CompanyHas(company, "veho") THEN "parse_veho_receipt"
        ELSE IF CompanyHas(company, "jarvenpaan")
        THEN "parse_jarvenpaa_receipt"
        ELSE IF CompanyHas(company, "first stop")
                \/ CompanyHas(company, "euromaster")
        THEN "parse_tire_receipt"
        ELSE "parse_generic_receipt"

\* The texts: two phrases on one line or on two.
VendorPhrases ==
    {<<>>, <<"Huolto">>, <<"Jarvenpaan", " ", "Automajor">>,
     <<"VEHO", " ", "AUTOTALOT">>, <<"Veho">>, <<"Autotalot">>,
     <<"A-Katsastus">>, <<"Sulan", " ", "Katsastus">>, <<"katsastus">>,
     <<"First", " ", "Stop">>, <<"FIRST">>, <<"STOP">>, <<"EUROMASTER">>,
     <<"Inspection">>}

VendorTexts ==
    {a \o sep \o b : a \in VendorPhrases, b \in VendorPhrases,
                     sep \in {<<" ">>, <<"\n">>}}

\* A datetime object.
DateTime(y, m, d) == [kind |-> "datetime", year |-> y, month |-> m, day |-> d]

\* Receipt(...) as every routine creates it, with the fields the routines
\* below fill in; amounts are in cents, the confidence score in tenths.
new_receipt(company, confidence_score, receipt_type) ==
    [kind |-> "receipt", invoice_number |-> JNull, service_date |-> JNull,
     company |-> company, vehicle_reg |-> JNull, total_amount |-> JNull,
     confidence_score |-> confidence_score, receipt_type |-> receipt_type]

\* The amount of the first match (re.search) and the largest amount of all
\* matches (max over re.findall); prices are listed in text order.
first_price(prices) == IF prices = <<>> THEN JNull ELSE JNum(prices[1])

max_price(prices) ==
    IF prices = <<>> THEN JNull
    ELSE JNum(CHOOSE c \in Range(prices) : \A e \in Range(prices) : e <= c)

\* r'([A-Z]{3}-\d{3})' finds a registration plate, not the model name.
plate(vehicle_reg) ==
    IF vehicle_reg = JStr("LTI-509") THEN vehicle_reg ELSE JNull

\* Lines 109-183.
parse_inspection_receipt(found, company) ==
    LET receipt ==
            [new_receipt(company, 7, "inspection") EXCEPT
                !.vehicle_reg = plate(found.vehicle_reg),
                !.service_date = found.service_date,
                !.total_amount = max_price(found.prices)]
    IN  IF ~Falsy(receipt.vehicle_reg) \/ ~Falsy(receipt.service_date)
        THEN receipt ELSE JNull

\* Lines 185-234.
parse_veho_receipt(found, company) ==
    LET receipt ==
            [new_receipt(company, 8, "service") EXCEPT
                !.invoice_number = found.invoice_number,
                !.vehicle_reg = plate(found.vehicle_reg),
                !.service_date = found.service_date,
                !.total_amount = first_price(found.prices)]
    IN  IF ~Falsy(receipt.invoice_number) \/ ~Falsy(receipt.total_amount)
        THEN receipt ELSE JNull

\* Lines 236-283.
parse_jarvenpaa_receipt(found, company) ==
    LET receipt ==
            [new_receipt(company, 8, "service") EXCEPT
                !.invoice_number = found.invoice_number,
                !.vehicle_reg = plate(found.vehicle_reg),
                !.service_date = found.service_date,
                !.total_amount = first_price(found.prices)]
    IN  IF ~Falsy(receipt.invoice_number) THEN receipt ELSE JNull

\* Lines 330-341: the prices between 10 and 10000.
reasonable_prices(prices) ==
    SelectSeq(prices, LAMBDA c : 1000 < c /\ c < 1000000)

\* Lines 285-346.
parse_tire_receipt(found, company) ==
    LET receipt ==
            [new_receipt(company, 6, "tire") EXCEPT
                !.vehicle_reg = IF found.vehicle_reg = JStr("CRV")
                                THEN JStr("CRV") ELSE JNull,
                !.service_date = found.service_date,
                !.total_amount = max_price(reasonable_prices(found.prices))]
    IN  IF ~Falsy(receipt.total_amount) \/ ~Falsy(receipt.service_date)
        THEN receipt ELSE JNull

\* Lines 348-382.
parse_generic_receipt(found, company) ==
    LET receipt ==
            [new_receipt(company, 5, "unknown") EXCEPT
                !.service_date = found.service_date,
                !.total_amount = max_price(found.prices)]
    IN  IF ~Falsy(receipt.total_amount) \/ ~Falsy(receipt.service_date)
        THEN receipt ELSE JNull

\* Lines 82-100.
parse_receipt_from_text(text) ==
    LET company == classified_company(text.words)
        routine == receipt_routine(text.words)
    IN  CASE routine = "parse_inspection_receipt" ->
                parse_inspection_receipt(text.found, company)
          [] routine = "parse_veho_receipt" ->
                parse_veho_receipt(text.found, company)
          [] routine = "parse_jarvenpaa_receipt" ->
                parse_jarvenpaa_receipt(text.found, company)
          [] routine = "parse_tire_receipt" ->
                parse_tire_receipt(text.found, company)
          [] OTHER -> parse_generic_receipt(text.found, company)

\* What the patterns of the routines can find in the rest of a text.
Founds ==
    [invoice_number : {JNull, JStr("4711")},
     vehicle_reg : {JNull, JStr("LTI-509"), JStr("CRV")},
     service_date : {JNull, DateTime(2020, 3, 15)},
     prices : {<<>>, <<0>>, <<500>>, <<20375>>, <<0, 20375>>, <<20375, 500>>}]

\* A receipt with a number, a plate, a date and one price.
FullFound ==
    [invoice_number |-> JStr("4711"), vehicle_reg |-> JStr("LTI-509"),
     service_date |-> DateTime(2020, 3, 15), prices |-> <<20375>>]

\* One text per vendor, one without a vendor, and one of each with the
\* word "katsastus" in it.
RoutineTexts ==
    {<<"Huolto">>, <<"Jarvenpaan", " ", "Automajor">>,
     <<"VEHO", " ", "AUTOTALOT">>, <<"A-Katsastus">>, <<"EUROMASTER">>,
     <<"Inspection">>, <<"VEHO", " ", "AUTOTALOT", "\n", "katsastus">>}

ReceiptTexts ==
    {[words |-> w, found |-> FullFound] : w \in VendorTexts}
        \cup {[words |-> w, found |-> f] : w \in RoutineTexts, f \in Founds}

(***************************************************************************)
(* _parse_amount (extract.py lines 108-116) on group 1 of an amount rule,  *)
(* r'(\d+[,.\s]\d{2})': digits, one separator, two digits.  Amounts are    *)
(* in cents.                                                               *)
(***************************************************************************)
\* str.replace(old, new) for single characters, and str.replace(old, "").
ReplaceChar(cs, old, new) ==
    [i \in DOMAIN cs |-> IF cs[i] = old THEN new ELSE cs[i]]

RemoveChar(cs, old) == SelectSeq(cs, LAMBDA c : c # old)

\* float(s) for a string of digits with at most one point and two decimals;
\* ValueError (None here) for a string with a tab or a newline inside.
float_cents(cs) ==
    IF AllDigits(cs) THEN JNum(100 * ToInt(cs))
    ELSE IF /\ Len(cs) >= 4
            /\ cs[Len(cs) - 2] = "."
            /\ AllDigits(SubSeq(cs, 1, Len(cs) - 3))
            /\ AllDigits(SubSeq(cs, Len(cs) - 1, Len(cs)))
    THEN JNum(100 * ToInt(SubSeq(cs, 1, Len(cs) - 3))
                + ToInt(SubSeq(cs, Len(cs) - 1, Len(cs))))
    ELSE JNull

\* Lines 108-116.
parse_amount(amount_str) ==
    float_cents(RemoveChar(ReplaceChar(amount_str, ",", "."), " "))

\* What (\d+[,.\s]\d{2}) can capture.
AmountDigits ==
    {<<"0">>, <<"7">>, <<"1", "2">>, <<"0", "0", "7">>, <<"2", "0", "3">>,
     <<"1", "2", "3", "4">>}

AmountSeparators == {",", ".", " ", "\t", "\n"}

AmountDecimals ==
    {<<"0", "0">>, <<"0", "5">>, <<"7", "5">>, <<"9", "9">>}

AmountTexts ==
    [digits : AmountDigits, sep : AmountSeparators, decimals : AmountDecimals]

AmountChars(a) == a.digits \o <<a.sep>> \o a.decimals

InitFn ==
    /\ ExtractInit
    /\ mode = "full_pipeline"
    /\ SiteIdle
    /\ ret = [done |-> FALSE]
    /\ \/ \E t \in ChainTexts : call = [fn |-> "_run_parsing", arg |-> t]
       \/ \E a \in OdoTexts : call = [fn |-> "odometer_km", arg |-> a]
       \/ \E ks \in KmStrings : call = [fn |-> "_parse_odometer", arg |-> ks]
       \/ \E km \in KmSamples : call = [fn |-> "fix_odometer", arg |-> km]
       \/ \E a \in DateTexts : call = [fn |-> "_parse_finnish_date", arg |-> a]
       \/ \E t \in ReceiptTexts :
             call = [fn |-> "parse_receipt_from_text", arg |-> t]
       \/ \E a \in AmountTexts : call = [fn |-> "_parse_amount", arg |-> a]
       \/ \E km \in KmSamples \ {0} :
             call = [fn |-> "clean_odometer_data", arg |-> km]

\* _run_parsing(text): the step it returns, with its dict by value.
CallRunParsing ==
    /\ call.fn = "_run_parsing"
    /\ ~ret.done
    /\ ret' = [done |-> TRUE,
               value |-> StepView(run_parsing(call.arg),
                                  [dp |-> parsed_fields(call.arg)])]
    /\ UNCHANGED <<call, extractVars, siteVars>>

\* _run_parsing(text)["extracted_fields"].get("odometer_km") for a text of
\* OdoTexts.
CallOdometerRules ==
    /\ call.fn = "odometer_km"
    /\ ~ret.done
    /\ ret' = [done |-> TRUE, value |-> odometer_km(OdoTokens(call.arg))]
    /\ UNCHANGED <<call, extractVars, siteVars>>

CallParseOdometer ==
    /\ call.fn = "_parse_odometer"
    /\ ~ret.done
    /\ ret' = [done |-> TRUE, value |-> parse_odometer(call.arg)]
    /\ UNCHANGED <<call, extractVars, siteVars>>

CallFixOdometer ==
    /\ call.fn = "fix_odometer"
    /\ ~ret.done
    /\ ret' = [done |-> TRUE, value |-> fix_odometer(call.arg)]
    /\ UNCHANGED <<call, extractVars, siteVars>>

\* The three repairs on one positive reading: _parse_odometer on its digits,
\* fix_odometer on the reading, clean_odometer_data on a record that has it.
CallCleanOdometerData ==
    /\ call.fn = "clean_odometer_data"
    /\ ~ret.done
    /\ ret' = [done |-> TRUE,
               value |-> clean_odometer_data(call.arg),
               parse_odometer |-> parse_odometer(DigitsOf(call.arg)),
               fix_odometer |-> fix_odometer(call.arg)]
    /\ UNCHANGED <<call, extractVars, siteVars>>

\* The repair applied to the value it has just returned: _parse_odometer on
\* the digits of that value, fix_odometer on the value.
RepairAgain ==
    /\ call.fn \in {"_parse_odometer", "fix_odometer"}
    /\ ret.done
    /\ "again" \notin DOMAIN ret
    /\ ret' = ret @@ [again |->
                        IF call.fn = "_parse_odometer"
                        THEN parse_odometer(DigitsOf(ret.value))
                        ELSE fix_odometer(ret.value)]
    /\ UNCHANGED <<call, extractVars, siteVars>>

\* The first date rule on a text of DateTexts: re.search, and the parser on
\* the match.
CallFinnishDateRule ==
    /\ call.fn = "_parse_finnish_date"
    /\ ~ret.done
    /\ LET groups == finnish_date_groups(DateTokens(call.arg))
       IN  IF groups.matched
           THEN \E value \in parse_finnish_date(groups) :
                    ret' = [done |-> TRUE, matched |-> TRUE, value |-> value]
           ELSE ret' = [done |-> TRUE, matched |-> FALSE, value |-> JNull]
    /\ UNCHANGED <<call, extractVars, siteVars>>

\* parse_receipt_from_text(text, page_num): the company it classified, the
\* routine it called and what that routine returned.
CallParseReceipt ==
    /\ call.fn = "parse_receipt_from_text"
    /\ ~ret.done
    /\ ret' = [done |-> TRUE,
               company |-> classified_company(call.arg.words),
               routine |-> receipt_routine(call.arg.words),
               value |-> parse_receipt_from_text(call.arg)]
    /\ UNCHANGED <<call, extractVars, siteVars>>

\* _parse_amount on a match whose group 1 is a text of AmountTexts.
CallParseAmount ==
    /\ call.fn = "_parse_amount"
    /\ ~ret.done
    /\ ret' = [done |-> TRUE, value |-> parse_amount(AmountChars(call.arg))]
    /\ UNCHANGED <<call, extractVars, siteVars>>

NextFn ==
    \/ CallRunParsing
    \/ CallOdometerRules
    \/ CallParseOdometer
    \/ CallFixOdometer
    \/ RepairAgain
    \/ CallFinnishDateRule
    \/ CallParseReceipt
    \/ CallParseAmount
    \/ CallCleanOdometerData

SpecFn == InitFn /\ [][NextFn]_vars

(***************************************************************************)
(* Properties.                                                             *)
(***************************************************************************)
\* The fallback reply of the run is a JSON object.
ReplyIsObject == llm_reply.outcome = "json" /\ llm_reply.value.kind = "object"

\* The fallback reply offers a value other than null for the field.
Offered(f) ==
    /\ ReplyIsObject
    /\ f \in Keys(llm_reply.value)
    /\ llm_reply.value.map[f] # JNull

\* C1: in full_pipeline mode, whatever the OCR text and the fallback reply,
\* every field the pattern stage extracted has in final_data (and in the
\* saved artifact) exactly the value the pattern stage produced.
C1_PatternValuesNeverOverwritten ==
    (mode = "full_pipeline" /\ pc \in {"fallback_done", "merged", "persisted"}) =>
        LET pattern == parsed_fields(ocr_text)
            final == heap[final_extracted_fields]
        IN  /\ final.kind = "object"
            /\ \A f \in Keys(pattern) :
                  f \in Keys(final) /\ final.map[f] = pattern.map[f]
            /\ pc = "persisted" => files[pdf].final_data = final

\* A persisted full_pipeline run whose fallback reply offered another value
\* for a field the pattern stage had found, and supplied a missing one.
C1_Witness ==
    /\ mode = "full_pipeline"
    /\ pc = "persisted"
    /\ \E f \in Keys(parsed_fields(ocr_text)) :
          Offered(f) /\ llm_reply.value.map[f] # parsed_fields(ocr_text).map[f]
    /\ \E g \in DOMAIN field_sources : field_sources[g] = "llm"

\* C2: in full_pipeline mode the fallback stage is invoked exactly when a
\* required field is absent after the pattern stage, and a fallback value is
\* accepted for a field exactly when the field is a missing required field
\* for which the reply holds a value; final_data holds nothing else but the
\* pattern fields and work_description.  In pattern_only and ocr_only modes
\* the fallback stage is never invoked.
C2_FallbackOnlyForMissingRequired ==
    /\ mode \in {"pattern_only", "ocr_only"} => llm_calls = 0
    /\ (mode = "full_pipeline" /\ pc \in {"pattern_done", "raised"}) =>
          /\ llm_calls <= 1
          /\ llm_calls = 1 =>
                required_fields \ Keys(parsed_fields(ocr_text)) # {}
    /\ (mode = "full_pipeline" /\ pc \in {"fallback_done", "merged", "persisted"}) =>
          LET pattern == parsed_fields(ocr_text)
              missing == required_fields \ Keys(pattern)
              final == heap[final_extracted_fields]
              accepted == {f \in missing : Offered(f)}
          IN  /\ llm_calls = (IF missing = {} THEN 0 ELSE 1)
              /\ pc = "fallback_done" <=> missing # {} /\ pc \notin {"merged", "persisted"}
              /\ Keys(final) \ {"work_description"} = Keys(pattern) \cup accepted
              /\ \A f \in accepted : final.map[f] = llm_reply.value.map[f]
              /\ \A f \in DOMAIN field_sources :
                    field_sources[f] = "llm" <=> f \in accepted

\* A persisted full_pipeline run in which the fallback supplied a missing
\* required field, offered a value for a field that is not required (not
\* accepted) and left another missing required field without a value.
C2_Witness ==
    /\ mode = "full_pipeline"
    /\ pc = "persisted"
    /\ llm_calls = 1
    /\ \E f \in required_fields \ Keys(parsed_fields(ocr_text)) : Offered(f)
    /\ \E f \in required_fields \ Keys(parsed_fields(ocr_text)) : ~Offered(f)
    /\ Offered("vat_amount")
    /\ "vat_amount" \notin Keys(parsed_fields(ocr_text))

\* The OCR step of the run holds an error, or the encoding of the empty text.
OcrYieldedNoText ==
    \/ "error" \in DOMAIN processing_steps[1]
    \/ processing_steps[1].output = [text |-> b64encode(EmptyText)]

\* C4: when OCR yields no text (an OCR error, or the empty text) process_pdf
\* raises nothing, runs no pattern, fallback or work-description stage, and
\* saves and returns a result with an empty final_data, an error in the
\* metadata and the ocr step alone.
C4_NoTextShortCircuits ==
    (pc \notin {"idle", "pending"} /\ OcrYieldedNoText) =>
        /\ pc \in {"ocr_done", "failed"}
        /\ Len(processing_steps) = 1
        /\ llm_calls = 0
        /\ heap[final_data] = EmptyDict
        /\ pc = "ocr_done" => ENABLED OcrFailed /\ ~ENABLED Decode
        /\ pc = "failed" =>
              /\ files[pdf].exists
              /\ files[pdf].final_data = EmptyDict
              /\ "error" \in DOMAIN files[pdf].metadata
              /\ Len(files[pdf].processing_steps) = 1
              /\ files[pdf].processing_steps[1].step_name = "ocr"

\* A run that failed on an OCR result holding the empty text.
C4_Witness ==
    /\ pc = "failed"
    /\ "text" \in DOMAIN processing_steps[1].output
    /\ processing_steps[1].output.text = JStr("")
    /\ files[pdf].exists

\* The fields the pattern stage of the mode produced (none without one).
PatternStageFields ==
    IF mode \in {"pattern_only", "full_pipeline"}
    THEN parsed_fields(ocr_text) ELSE EmptyDict

\* final_data when the fallback recovers nothing: the pattern-stage fields
\* plus work_description.
FinalWithoutFallback ==
    IF extract_work_description(ocr_text) = <<>> THEN PatternStageFields
    ELSE DictSet(PatternStageFields, "work_description",
                 work_description_value(extract_work_description(ocr_text)))

\* The external fallback call of the run failed: transport error, timeout,
\* HTTP error status, a response text that is no JSON, or JSON that is no
\* object.
FallbackFailed == llm_calls = 1 /\ ~ReplyIsObject

\* C3: for every failure outcome of the fallback call, the fallback step
\* carries an error marker and an empty extracted field set, no exception
\* leaves process_pdf, and final_data equals the pattern-stage fields plus
\* work_description.
C3_FallbackFailureIsContained ==
    FallbackFailed =>
        LET step == processing_steps[Len(processing_steps)]
        IN  /\ pc # "raised"
            /\ step.step_name = "llm_extraction"
            /\ "error" \in DOMAIN step
            /\ heap[step.extracted_fields] = EmptyDict
            /\ pc \in {"merged", "persisted"} =>
                  heap[final_data] = FinalWithoutFallback

\* C5: every run of process_pdf ends in a terminal state with data.json
\* written by that run; no stage outcome makes it abort or block before.
C5_EveryRunPersists ==
    /\ pc # "raised"
    /\ pc \in {"persisted", "failed"} =>
          /\ files[pdf].exists
          /\ files[pdf].metadata.processed_at = runs
    /\ pc \in {"pending", "ocr_done", "decoded", "pattern_done",
               "fallback_done", "merged"} => ENABLED Pipeline(Texts, Replies)

\* C6: once data.json exists for a document, no later invocation (batch or
\* single file) starts a run on the document or changes the artifact.
C6_ExistingArtifactUntouched ==
    [][\A d \in Pdfs :
          files[d].exists =>
              /\ files'[d] = files[d]
              /\ ~(pc = "idle" /\ pc' = "pending" /\ pdf' = d)]_vars

\* C7: in a batch run a processed document is counted as successful exactly
\* when date, amount and company are all present in its final_data, and
\* otherwise the required fields absent from final_data are the ones
\* reported as missing.
C7_SuccessMeansRequiredPresent ==
    caller = "process_directory" =>
        \A i \in 1..Len(results_summary) :
            LET r == results_summary[i]
                absent == required_fields \ Keys(files[r.file].final_data)
            IN  "error" \notin DOMAIN r =>
                    /\ r.success <=> absent = {}
                    /\ ~r.success => r.missing_required = absent

\* The value of field f in the artifact is the one the pattern matching of
\* the run produced.
FromPatternMatching(final, f) ==
    \/ /\ f \in Keys(PatternStageFields)
       /\ final.map[f] = PatternStageFields.map[f]
    \/ /\ f = "work_description"
       /\ extract_work_description(ocr_text) # <<>>
       /\ final.map[f] =
             work_description_value(extract_work_description(ocr_text))

\* The value of field f in the artifact is the one the fallback step holds.
FromFallbackStep(final, f) ==
    /\ llm_calls = 1
    /\ ReplyIsObject
    /\ f \in Keys(llm_reply.value)
    /\ final.map[f] = llm_reply.value.map[f]

\* C8: in every persisted artifact metadata.field_sources has an entry for
\* exactly the fields present in final_data; the entry is "parsing" exactly
\* for values produced by pattern matching and "llm" exactly for values
\* taken from the fallback step.
C8_FieldSourcesMatchFinalData ==
    pc \in {"persisted", "failed"} =>
        LET final == files[pdf].final_data
            present == IF final.kind = "object" THEN Keys(final) ELSE {}
            sources == IF "field_sources" \in DOMAIN files[pdf].metadata
                       THEN files[pdf].metadata.field_sources ELSE <<>>
        IN  /\ DOMAIN sources = present
            /\ \A f \in present :
                  /\ sources[f] = "parsing" <=> FromPatternMatching(final, f)
                  /\ sources[f] = "llm" <=>
                        FromFallbackStep(final, f) /\ ~FromPatternMatching(final, f)

\* C9: a step that has been appended to processing_steps stays as it is,
\* its extracted_fields included, for the rest of the run.
C9_StepsNeverMutated ==
    [][pc # "idle" =>
          \A i \in 1..Len(processing_steps) :
              /\ i <= Len(processing_steps')
              /\ StepView(processing_steps'[i], heap') =
                    StepView(processing_steps[i], heap)]_vars

\* C10: final_data of a persisted artifact has no key whose value is null.
C10_NoNullValuedKeys ==
    \A d \in Pdfs :
        (files[d].exists /\ files[d].final_data.kind = "object") =>
            \A k \in Keys(files[d].final_data) :
                files[d].final_data.map[k] # JNull

(***************************************************************************)
(* C11.  Order of the stages of one run.                                   *)
(***************************************************************************)
StepNames == [i \in DOMAIN processing_steps |-> processing_steps[i].step_name]

\* The ocr step is first, a parsing step precedes an llm_extraction step,
\* and no stage has run or been recorded twice.
StepsInOrder ==
    /\ processing_steps # <<>> => StepNames[1] = "ocr"
    /\ \A i, j \in DOMAIN StepNames :
          i < j => /\ StepNames[i] # StepNames[j]
                   /\ ~(StepNames[i] = "llm_extraction"
                         /\ StepNames[j] = "parsing")
    /\ ocr_calls <= 1
    /\ llm_calls <= 1

NoStepAfterWrite ==
    processing_steps' # processing_steps => \A d \in Pdfs : ~files[d].exists

\* C11 as stated: within one run the ocr step is first, parsing precedes
\* llm_extraction, each stage runs at most once, and data.json is written
\* only after the last step was appended and the merge was done.
C11_WriteOnlyAfterMerge ==
    /\ []StepsInOrder
    /\ [][NoStepAfterWrite]_vars
    /\ [][files' # files =>
            pc = "merged" /\ processing_steps' = processing_steps]_vars

\* C11, amended: as above, except that a run whose OCR yielded no text
\* writes data.json right after the ocr step, without any merge.
C11_StepsInOrderWriteLast ==
    /\ []StepsInOrder
    /\ [][NoStepAfterWrite]_vars
    /\ [][files' # files =>
            /\ processing_steps' = processing_steps
            /\ \/ pc = "merged"
               \/ pc = "ocr_done" /\ OcrYieldedNoText]_vars

\* A full-pipeline run that went through all three stages and was saved.
C11_Witness ==
    /\ pc = "persisted"
    /\ files[pdf].exists
    /\ StepNames = <<"ocr", "parsing", "llm_extraction">>

(***************************************************************************)
(* C12.  One document's failure does not stop the batch.                   *)
(***************************************************************************)
SummaryOf(d) ==
    {i \in DOMAIN results_summary : results_summary[i].file = d}

\* The PDF was skipped (data.json exists, no summary entry), or processed
\* and summarized (one entry, data.json written), or its exception was
\* recorded (one entry with the error, nothing written).
AccountedFor(d) ==
    \/ SummaryOf(d) = {} /\ files[d].exists
    \/ \E i \in SummaryOf(d) :
          /\ SummaryOf(d) = {i}
          /\ \/ files[d].exists
             \/ "error" \in DOMAIN results_summary[i]

\* C12: process_directory ends only through its summary, with every PDF
\* found either skipped because its artifact exists, processed and
\* summarized, or recorded with its error; and once started, the loop
\* reaches the summary whatever fails in between.
C12_BatchSurvivesFailures ==
    /\ [][(caller = "process_directory" /\ caller' # caller) =>
            (pdf_files = {} /\ \A d \in Pdfs : AccountedFor(d))]_vars
    /\ (caller = "process_directory") ~> (caller = "none")

\* A finished batch whose first document raised and whose second document
\* was then processed and summarized.
C12_Witness ==
    /\ caller = "none"
    /\ Len(results_summary) = 2
    /\ results_summary[1] = [file |-> results_summary[1].file,
                             error |-> "TypeError"]
    /\ "success" \in DOMAIN results_summary[2]
    /\ ~files[results_summary[1].file].exists
    /\ files[results_summary[2].file].exists

(***************************************************************************)
(* C13 - C17.  The reconciler of site.py and the records it feeds.         *)
(***************************************************************************)
\* The fields the override of a call names, and the ground-truth value of
\* a field with an absent field read as null.
NamedByOverride(c) ==
    IF "ground_truth" \in DOMAIN c.files.override.json
    THEN c.files.override.json.ground_truth ELSE <<>>

StoredValue(c, f) ==
    IF f \in DOMAIN c.files.verified.json.ground_truth
    THEN c.files.verified.json.ground_truth[f] ELSE JNull

\* C13: when an override exists, every field it names whose value differs
\* from the ground-truth value (absent read as null) is recorded in
\* overridden_fields as {original, override} and has the override value in
\* the reconciled record; a field whose values are equal gets no entry.
C13_DifferingOverridesRecorded ==
    \A c \in loaded :
        c.files.override.exists =>
            LET audit == c.result.override_info.overridden_fields
            IN  \A f \in DOMAIN NamedByOverride(c) :
                    IF StoredValue(c, f) # NamedByOverride(c)[f]
                    THEN /\ f \in DOMAIN audit
                         /\ audit[f] = [original |-> StoredValue(c, f),
                                        override |-> NamedByOverride(c)[f]]
                         /\ f \in DOMAIN c.result.ground_truth
                         /\ c.result.ground_truth[f] = NamedByOverride(c)[f]
                    ELSE f \notin DOMAIN audit

\* Ground truth amount 40 reconciled with an override of amount 50 and of a
\* date equal to the stored one.
C13_Witness ==
    \E c \in loaded :
        /\ c.files.override.exists
        /\ StoredValue(c, "amount") = JNum(40)
        /\ StoredValue(c, "date") = JStr("2020-03-15")
        /\ NamedByOverride(c) =
              [amount |-> JNum(50), date |-> JStr("2020-03-15")]
        /\ c.result.override_info.overridden_fields =
              [amount |-> [original |-> JNum(40), override |-> JNum(50)]]
        /\ c.result.ground_truth.amount = JNum(50)

\* C14: when no override.json exists, the reconciled ground truth is the
\* verified ground truth verbatim and override_info is exactly
\* {has_overrides: false, overridden_fields: {}, reason: null}.
C14_NoOverridePassesThrough ==
    \A c \in loaded :
        ~c.files.override.exists =>
            /\ c.result.ground_truth = c.files.verified.json.ground_truth
            /\ c.result.override_info =
                  [has_overrides |-> FALSE, overridden_fields |-> <<>>,
                   reason |-> JNull]

\* A record with three ground-truth fields reconciled without an override.
C14_Witness ==
    \E c \in loaded :
        /\ ~c.files.override.exists
        /\ DOMAIN c.result.ground_truth = {"date", "amount", "odometer_km"}

\* C15: in every reconciled record has_overrides is true exactly when
\* overridden_fields is non-empty; an override whose values all equal the
\* ground truth yields has_overrides false.
C15_HasOverridesIffFieldChanged ==
    \A c \in loaded :
        c.result.override_info.has_overrides
            <=> (DOMAIN c.result.override_info.overridden_fields # {})

UsableDate(record) ==
    /\ "date" \in DOMAIN record
    /\ record.date.kind = "string"
    /\ record.date.str # ""
    /\ strptime_ok(Chars(record.date.str))

\* C17: every record of service_data has, after overrides, a usable date;
\* a record without one is left out, and the build of the others goes on.
C17_AggregatedRecordsHaveUsableDate ==
    /\ \A i \in DOMAIN service_data : UsableDate(service_data[i])
    /\ site_pc # "aborted"

(***************************************************************************)
(* C18 - C20.  The rule chains and the odometer repair.                    *)
(***************************************************************************)
\* The rules of a field that match the text of the call and whose parser
\* returns a value other than None.
YieldingRules(f) ==
    {i \in DOMAIN call.arg.rules[f] :
        /\ call.arg.rules[f][i].matched
        /\ call.arg.rules[f][i].value # JNull}

\* C18: for each field _run_parsing returns the normalized value of the
\* first rule, in table order, that matches and normalizes to a non-null
\* value; a rule that matches but normalizes to null does not stop the
\* chain; the field is absent from extracted_fields exactly when no rule
\* yields a non-null value.
C18_FirstYieldingRuleDecides ==
    (call.fn = "_run_parsing" /\ ret.done) =>
        \A f \in Fields :
            LET extracted == ret.value.extracted_fields
            IN  IF YieldingRules(f) = {}
                THEN f \notin Keys(extracted)
                ELSE /\ f \in Keys(extracted)
                     /\ \E i \in YieldingRules(f) :
                           /\ \A j \in YieldingRules(f) : i <= j
                           /\ extracted.map[f] = call.arg.rules[f][i].value

\* The first amount rule matched and was normalized to None, the second and
\* the third both yield a value: the second one's value is returned.
C18_Witness ==
    /\ call.fn = "_run_parsing"
    /\ ret.done
    /\ call.arg.rules["amount"] =
          <<Rejected, Hit(PatVal("amount", 2)), Hit(PatVal("amount", 3))>>
    /\ ret.value.extracted_fields = JObj([amount |-> PatVal("amount", 2)])
    /\ ret.value.missing_fields = {"date", "company"}

\* The reading a repair function was called on, its first digit and what
\* is left of it without that digit, by arithmetic.
CallKm == IF call.fn = "_parse_odometer" THEN ToInt(call.arg) ELSE call.arg

RECURSIVE LeadPlace(_)
LeadPlace(n) == IF n < 10 THEN 1 ELSE 10 * LeadPlace(n \div 10)

FirstDigit(n) == n \div LeadPlace(n)

Stripped(n) == n % LeadPlace(n)

RepairCalled == call.fn \in {"_parse_odometer", "fix_odometer"} /\ ret.done

\* C19 as stated: the repair changes a value only when it is greater than
\* 1,000,000 and its first digit is 2; the stripped value is then accepted
\* exactly when it lies in [200000, 500000), 200000 included; in every
\* other case the value is returned unchanged.
C19_StrippedAcceptedFrom200000 ==
    RepairCalled =>
        ret.value =
            IF /\ CallKm > 1000000
               /\ FirstDigit(CallKm) = 2
               /\ 200000 <= Stripped(CallKm)
               /\ Stripped(CallKm) < 500000
            THEN Stripped(CallKm) ELSE CallKm

\* C19, amended: the stripped value is accepted exactly when it lies
\* strictly between 200000 and 500000 (200000 itself is not accepted), and
\* fix_odometer repairs seven-digit values only.
C19_StrippedAcceptedAbove200000 ==
    RepairCalled =>
        ret.value =
            IF /\ CallKm > 1000000
               /\ FirstDigit(CallKm) = 2
               /\ 200000 < Stripped(CallKm)
               /\ Stripped(CallKm) < 500000
               /\ call.fn = "fix_odometer" => CallKm < 10000000
            THEN Stripped(CallKm) ELSE CallKm

\* _parse_odometer repaired 2200001, the smallest reading it repairs.
C19_Witness ==
    /\ call = [fn |-> "_parse_odometer", arg |-> DigitsOf(2200001)]
    /\ ret = [done |-> TRUE, value |-> 200001]

\* The text of the call is "Mittarilukema:", a newline and a seven-digit
\* number that starts with 2, with or without something after it.
LabelThenSevenDigits ==
    /\ call.fn = "odometer_km"
    /\ call.arg.prefix = <<"Mittarilukema", ":">>
    /\ call.arg.sep = <<"\n">>
    /\ Len(call.arg.digits) = 7
    /\ call.arg.digits[1] = "2"

\* C20: for such a text, when the last six digits lie in (200000, 500000)
\* odometer_km is those six digits (2387551 gives 387551); otherwise
\* (2611000) odometer_km is the unrepaired number or absent, never the
\* stripped value or a number that is not printed in the text.
C20_LabelledReadingRepairedOrKept ==
    (LabelThenSevenDigits /\ ret.done) =>
        LET printed == ToInt(call.arg.digits)
            six == printed - 2000000
        IN  IF 200000 < six /\ six < 500000
            THEN ret.value = JNum(six)
            ELSE ret.value \in {JNull, JNum(printed)}

(***************************************************************************)
(* C21 - C22.  The Finnish date rule; the odometer repair applied twice.   *)
(***************************************************************************)
\* The text of the call is a date written with dots and nothing else, and
\* the day exists in the calendar (for the year taken as it is written, or
\* with its century when it has two digits).
WrittenDate(yearLen) ==
    /\ call.fn = "_parse_finnish_date"
    /\ call.arg.prefix = <<>>
    /\ call.arg.suffix = <<>>
    /\ Len(DateChars(call.arg.year)) = yearLen

WrittenDay == ToInt(DateChars(call.arg.day))

WrittenMonth == ToInt(DateChars(call.arg.month))

\* C21: for every valid calendar date written DD.MM.YYYY the rule returns
\* the string YYYY-MM-DD of the same day (the year as written, month and
\* day with two digits); a two-digit year YY is read as 20YY when YY < 50
\* and as 19YY when YY >= 50.
C21_FinnishDateToIso ==
    /\ (WrittenDate(4) /\ ret.done
          /\ ValidYMD(ToInt(DateChars(call.arg.year)), WrittenMonth,
                      WrittenDay)) =>
            ret.value =
                Str(DateChars(call.arg.year) \o <<"-">>
                      \o ZeroPad(DigitsOf(WrittenMonth), 2) \o <<"-">>
                      \o ZeroPad(DigitsOf(WrittenDay), 2))
    /\ (WrittenDate(2) /\ ret.done) =>
            LET yy == ToInt(DateChars(call.arg.year))
                year == IF yy < 50 THEN 2000 + yy ELSE 1900 + yy
            IN  ValidYMD(year, WrittenMonth, WrittenDay) =>
                    ret.value =
                        Str(DigitsOf(year) \o <<"-">>
                              \o ZeroPad(DigitsOf(WrittenMonth), 2) \o <<"-">>
                              \o ZeroPad(DigitsOf(WrittenDay), 2))

\* C22: the odometer repair is idempotent: applied to a value it has
\* returned, it returns that value again; a corrected value is not altered
\* by the second application.
C22_RepairIdempotent ==
    (RepairCalled /\ "again" \in DOMAIN ret) => ret.again = ret.value

\* 2387551 was corrected to 387551, and the repair of 387551 is 387551.
C22_Witness ==
    /\ call = [fn |-> "_parse_odometer", arg |-> DigitsOf(2387551)]
    /\ ret = [done |-> TRUE, value |-> 387551, again |-> 387551]

(***************************************************************************)
(* C23 - C24.  The vendor classifier and the per-vendor routines.          *)
(***************************************************************************)
ReceiptParsed == call.fn = "parse_receipt_from_text" /\ ret.done

\* The company patterns that match the text of the call.
MatchingPatterns ==
    {i \in DOMAIN company_names : company_pattern_found(i, call.arg.words)}

\* The routine that belongs to a vendor.
RoutineOf(company) ==
    CASE company = "Veho Autotalot" -> "parse_veho_receipt"
      [] company = "Jarvenpaan Automajor" -> "parse_jarvenpaa_receipt"
      [] company \in {"A-Katsastus", "Sulan Katsastus"} ->
            "parse_inspection_receipt"
      [] company \in {"First Stop", "Euromaster"} -> "parse_tire_receipt"
      [] OTHER -> "parse_generic_receipt"

\* C23: the vendor is the one of the first company pattern, in the fixed
\* order, that matches the text ("Unknown" when none matches), and the
\* routine that runs is the routine of that vendor: the generic routine
\* for an unknown vendor.
C23_RoutineOfClassifiedVendor ==
    ReceiptParsed =>
        /\ IF MatchingPatterns = {} THEN ret.company = "Unknown"
           ELSE \E i \in MatchingPatterns :
                    /\ \A j \in MatchingPatterns : i <= j
                    /\ ret.company = company_names[i]
        /\ ret.routine = RoutineOf(ret.company)

\* What the routine of the call extracted from the text: the total it
\* keeps (0 cents included), the registration, the invoice number.
ExtractedTotal ==
    CASE ret.routine \in {"parse_veho_receipt", "parse_jarvenpaa_receipt"} ->
            first_price(call.arg.found.prices)
      [] ret.routine = "parse_tire_receipt" ->
            max_price(reasonable_prices(call.arg.found.prices))
      [] OTHER -> max_price(call.arg.found.prices)

ExtractedRegistration ==
    CASE ret.routine = "parse_generic_receipt" -> JNull
      [] ret.routine = "parse_tire_receipt" ->
            IF call.arg.found.vehicle_reg = JStr("CRV") THEN JStr("CRV")
            ELSE JNull
      [] OTHER -> plate(call.arg.found.vehicle_reg)

ExtractedInvoiceNumber ==
    IF ret.routine \in {"parse_veho_receipt", "parse_jarvenpaa_receipt"}
    THEN call.arg.found.invoice_number ELSE JNull

\* The minimum subset of the routine was extracted.
MinimumSubset ==
    CASE ret.routine = "parse_jarvenpaa_receipt" ->
            ExtractedInvoiceNumber # JNull
      [] ret.routine = "parse_veho_receipt" ->
            ExtractedInvoiceNumber # JNull \/ ExtractedTotal # JNull
      [] ret.routine = "parse_inspection_receipt" ->
            \/ ExtractedRegistration # JNull
            \/ call.arg.found.service_date # JNull
      [] OTHER ->
            ExtractedTotal # JNull \/ call.arg.found.service_date # JNull

\* The confidence score of a routine, in tenths.
ScoreOf(routine) ==
    CASE routine \in {"parse_veho_receipt", "parse_jarvenpaa_receipt"} -> 8
      [] routine = "parse_inspection_receipt" -> 7
      [] routine = "parse_tire_receipt" -> 6
      [] OTHER -> 5

\* C24: a routine returns a record exactly when its minimum subset was
\* extracted (an extracted total of 0.00 counts as present) and nothing
\* otherwise; the record carries the constant score of its routine, and
\* the record of an unknown vendor carries the lowest score, 0.5.
C24_RecordIffMinimumSubset ==
    ReceiptParsed =>
        /\ (ret.value # JNull) <=> MinimumSubset
        /\ ret.value # JNull =>
              /\ ret.value.confidence_score = ScoreOf(ret.routine)
              /\ ret.company = "Unknown" => ret.value.confidence_score = 5

(***************************************************************************)
(* C25.  The types of the values of final_data.                            *)
(***************************************************************************)
\* A value has the type of its field.
HasFieldType(field, v) ==
    CASE field = "date" ->
            /\ v.kind = "string"
            /\ Len(Chars(v.str)) = 10
            /\ strptime_ok(Chars(v.str))
      [] field \in {"amount", "vat_amount", "odometer_km"} ->
            v.kind = "number"
      [] field \in {"company", "invoice_number"} -> v.kind = "string"
      [] field = "work_description" ->
            /\ v.kind = "array"
            /\ Len(v.items) <= MaxDescriptions
            /\ \A i \in DOMAIN v.items : v.items[i].kind = "string"
      [] OTHER -> TRUE

\* C25: once the stages of a run are over, every value of final_data has
\* the type of its field, whichever stage supplied it: date a valid
\* calendar date YYYY-MM-DD, amount, vat_amount and odometer_km numbers,
\* company and invoice_number strings, work_description a list of at most
\* ten strings.
C25_FinalDataTyped ==
    (pc \in {"merged", "persisted"} /\ heap[final_data].kind = "object") =>
        \A f \in Keys(heap[final_data]) :
            HasFieldType(f, heap[final_data].map[f])

(***************************************************************************)
(* C26 - C27.  The amount parser; the ocr_only mode.                       *)
(***************************************************************************)
\* C26: for an amount text <digits><sep><two digits> whose separator is a
\* comma, a point or a space, _parse_amount returns digits + decimals/100,
\* in cents 100 * digits + decimals, whichever of the three it is.
C26_SeparatorBecomesDecimalPoint ==
    (call.fn = "_parse_amount" /\ ret.done
        /\ call.arg.sep \in {",", ".", " "}) =>
            ret.value = JNum(100 * ToInt(call.arg.digits)
                               + ToInt(call.arg.decimals))

\* C27: in ocr_only mode, once the stages of a run with a successful OCR
\* are over, processing_steps holds the ocr step only and final_data and
\* field_sources are empty.
C27_OcrOnlyExtractsNothing ==
    (mode = "ocr_only" /\ pc \in {"merged", "persisted"}) =>
        /\ Len(processing_steps) = 1
        /\ processing_steps[1].step_name = "ocr"
        /\ heap[final_data] = EmptyDict
        /\ field_sources = <<>>

(***************************************************************************)
(* C28 - C29.  The service records of the site; the frame of the          *)
(* reconciler.                                                             *)
(***************************************************************************)
\* C28: after process_and_rename_files the "date" of every service record
\* is the stem of its renamed_filename, and no two records of service_data
\* have the same "date".
C28_RecordDateIsRenamedStem ==
    site_pc \in {"processed", "built", "aborted"} =>
        /\ \A i \in DOMAIN service_data :
              service_data[i].date = service_data[i].renamed_filename
        /\ \A i, j \in DOMAIN service_data :
              i # j => service_data[i].date # service_data[j].date

\* The fields the override of a call names; none when there is no override.
NamedFields(c) ==
    IF c.files.override.exists THEN NamedByOverride(c) ELSE <<>>

C30_RepairsAgree ==
    (call.fn = "clean_odometer_data" /\ ret.done) =>
        /\ ret.value = ret.parse_odometer
        /\ ret.value = ret.fix_odometer

====
